---- MODULE Spec2Model ----
(***************************************************************************)
(* Conversational core of the phone/WhatsApp feedback agent: the survey    *)
(* progression over WhatsApp (api/nexmo_webhooks.py), the creation and the *)
(* auto-completion of sessions (api/calls.py), the voice gather webhook    *)
(* (api/twilio_webhooks.py) and the background sentiment job.              *)
(*                                                                         *)
(* Texts are sequences of one-character strings, so that the interpreter,  *)
(* the phone normalisation and the question-likeness heuristic are         *)
(* computed the way the code computes them.  Times are counted in units of *)
(* 30 minutes.  Sentiment scores are counted in tenths.                    *)
(***************************************************************************)
EXTENDS Integers, Sequences, FiniteSets, TLC

(***************************************************************************)
(* Text helpers (Python str operations used by the handlers).              *)
(***************************************************************************)
Digits == {"0", "1", "2", "3", "4", "5", "6", "7", "8", "9"}

DigitVal(c) ==
    CASE c = "0" -> 0 [] c = "1" -> 1 [] c = "2" -> 2 [] c = "3" -> 3
      [] c = "4" -> 4 [] c = "5" -> 5 [] c = "6" -> 6 [] c = "7" -> 7
      [] c = "8" -> 8 [] c = "9" -> 9

\* str.lower() on one character (the upper-case letters the model uses)
LowerChar(c) ==
    CASE c = "G" -> "g" [] c = "B" -> "b" [] c = "Y" -> "y" [] c = "N" -> "n"
      [] OTHER -> c

Lower(s) == [i \in 1..Len(s) |-> LowerChar(s[i])]

IsSpace(c) == c = " "

RECURSIVE LStrip(_)
LStrip(s) == IF s # <<>> /\ IsSpace(Head(s)) THEN LStrip(Tail(s)) ELSE s

RECURSIVE RStrip(_)
RStrip(s) ==
    IF s # <<>> /\ IsSpace(s[Len(s)]) THEN RStrip(SubSeq(s, 1, Len(s) - 1)) ELSE s

\* str.strip()
Strip(s) == RStrip(LStrip(s))

\* a in b  (substring test; the empty string is in every string)
Contains(b, a) ==
    \E i \in 1..(Len(b) - Len(a) + 1) : SubSeq(b, i, i + Len(a) - 1) = a

\* len(s.split()): the number of maximal runs of non-space characters
WordCount(s) ==
    Cardinality({i \in 1..Len(s) :
        /\ ~IsSpace(s[i])
        /\ (i = 1 \/ IsSpace(s[i - 1]))})

\* s.replace(c, '') for a single character c
RECURSIVE RemoveChar(_, _)
RemoveChar(s, c) ==
    IF s = <<>> THEN <<>>
    ELSE IF Head(s) = c THEN RemoveChar(Tail(s), c)
    ELSE <<Head(s)>> \o RemoveChar(Tail(s), c)

\* value of a run of decimal digits
RECURSIVE DigitsVal(_)
DigitsVal(s) ==
    IF s = <<>> THEN 0 ELSE 10 * DigitsVal(SubSeq(s, 1, Len(s) - 1)) + DigitVal(s[Len(s)])

AllDigits(s) == s # <<>> /\ \A i \in 1..Len(s) : s[i] \in Digits

\* 10^k
RECURSIVE Pow10(_)
Pow10(k) == IF k = 0 THEN 1 ELSE 10 * Pow10(k - 1)

\* Decimal numbers are fractions n/d with d a power of ten (Python floats of
\* short decimal literals).
Num(n, d) == [n |-> n, d |-> d]
NumLE(a, b) == a.n * b.d <= b.n * a.d
NumLT(a, b) == a.n * b.d < b.n * a.d

\* int(s): optional sign and decimal digits (s is already stripped);
\* "ok" is FALSE where Python raises ValueError
ParseInt(s) ==
    LET body == IF s # <<>> /\ Head(s) \in {"-", "+"} THEN Tail(s) ELSE s
        neg  == s # <<>> /\ Head(s) = "-"
    IN  IF AllDigits(body)
        THEN [ok |-> TRUE, v |-> IF neg THEN 0 - DigitsVal(body) ELSE DigitsVal(body)]
        ELSE [ok |-> FALSE, v |-> 0]

\* length of the longest prefix of s made of digits
RECURSIVE DigitRun(_)
DigitRun(s) == IF s # <<>> /\ Head(s) \in Digits THEN 1 + DigitRun(Tail(s)) ELSE 0

\* the match of  -?\d+\.?\d*  anchored at position i of s (<<>> if none)
MatchNumberAt(s, i) ==
    LET rest == SubSeq(s, i, Len(s))
        sign == IF rest # <<>> /\ Head(rest) = "-" THEN 1 ELSE 0
        r1   == SubSeq(rest, sign + 1, Len(rest))
        k1   == DigitRun(r1)
        r2   == SubSeq(r1, k1 + 1, Len(r1))
        dot  == IF r2 # <<>> /\ Head(r2) = "." THEN 1 ELSE 0
        r3   == SubSeq(r2, dot + 1, Len(r2))
        k2   == IF dot = 1 THEN DigitRun(r3) ELSE 0
    IN  IF k1 = 0 THEN <<>> ELSE SubSeq(rest, 1, sign + k1 + dot + k2)

\* float(m) for a match m of -?\d+\.?\d*
FloatOfMatch(m) ==
    LET neg  == Head(m) = "-"
        body == IF neg THEN Tail(m) ELSE m
        k1   == DigitRun(body)
        frac == SubSeq(body, k1 + 2, Len(body))
        mag  == DigitsVal(SubSeq(body, 1, k1)) * Pow10(Len(frac)) + DigitsVal(frac)
    IN  Num(IF neg THEN 0 - mag ELSE mag, Pow10(Len(frac)))

\* re.findall(r'-?\d+\.?\d*', s)[0], as [ok, v]; ok is FALSE when there is no match
FirstNumber(s) ==
    LET hits == {i \in 1..Len(s) : MatchNumberAt(s, i) # <<>>}
    IN  IF hits = {} THEN [ok |-> FALSE, v |-> Num(0, 1)]
        ELSE LET i == CHOOSE j \in hits : \A k \in hits : j <= k
             IN  [ok |-> TRUE, v |-> FloatOfMatch(MatchNumberAt(s, i))]

\* float(s) for the literals the model's alphabet can spell: optional sign,
\* digits, optional fraction; "ok" is FALSE where Python raises ValueError
ParseFloat(s) ==
    LET t    == Strip(s)
        sgn  == t # <<>> /\ Head(t) \in {"-", "+"}
        body == IF sgn THEN Tail(t) ELSE t
        m    == MatchNumberAt(body, 1)
    IN  IF body # <<>> /\ Head(body) # "-" /\ m # <<>> /\ m = body
        THEN [ok |-> TRUE,
              v |-> LET f == FloatOfMatch(m)
                    IN  IF t # <<>> /\ Head(t) = "-" THEN Num(0 - f.n, f.d) ELSE f]
        ELSE [ok |-> FALSE, v |-> Num(0, 1)]


(***************************************************************************)
(* Bounds of the exploration.                                              *)
(***************************************************************************)
MaxCalls == 2
MaxSessions == 2
MaxTicks == 1
MaxJobs == 2
MaxNotes == 1
\* the number of handler invocations and clock advances of one behaviour
MaxSteps == 5
\* the inbound WhatsApp webhook invocations that can be in flight together
MaxWorkers == 2

(***************************************************************************)
(* Optional values: {} is None / a missing key, {v} is the value v.        *)
(***************************************************************************)
NoneVal == {}
Some(v) == {v}
\* dict.get(key, default)
Get(o, default) == IF o = {} THEN default ELSE CHOOSE v \in o : TRUE

(***************************************************************************)
(* Survey definitions (documents of the "surveys" collection).             *)
(***************************************************************************)
\* follow_up_logic: condition -> question id; {} by default
NoLogic == [c \in {} |-> ""]

Question(id, qtype, options) ==
    [id |-> id, question_type |-> qtype, options |-> options,
     scale_min |-> NoneVal, scale_max |-> NoneVal,
     min_value |-> NoneVal, max_value |-> NoneVal, max_length |-> NoneVal,
     follow_up_logic |-> NoLogic]

OptGood == <<"G", "o", "o", "d">>
OptBad == <<"B", "a", "d">>

\* the surveys that exist from the start
SurveyIds == {"s1"}

\* the question list of the surveys that exist from the start
FeedbackSurvey ==
    << Question("q1", "multiple_choice", <<OptGood, OptBad>>),
       Question("q2", "rating", <<>>),
       Question("q3", "open_ended", <<>>) >>

\* a question list whose first question branches on its answer
BranchingSurvey ==
    << [Question("q1", "numeric", <<>>) EXCEPT
           !.follow_up_logic = ("1-2" :> "q3") @@ ("4-5" :> "q4")],
       Question("q2", "open_ended", <<>>),
       Question("q3", "open_ended", <<>>),
       Question("q4", "open_ended", <<>>) >>

\* a question list of one question
ShortSurvey == << Question("q1", "multiple_choice", <<OptGood, OptBad>>) >>

\* the question lists a survey can be created with or updated to
SurveyTemplates == {FeedbackSurvey, BranchingSurvey, ShortSurvey}

\* the ids of the surveys that can come to exist
AllSurveyIds == {"s1", "s2"}

KnownQuestions ==
    UNION {{qs[i] : i \in 1..Len(qs)} : qs \in SurveyTemplates}


(***************************************************************************)
(* Inbound texts and phone numbers.                                        *)
(***************************************************************************)
TxtOne == <<"1">>
TxtBad == <<"b", "a", "d">>
TxtEightQ == <<"8", "?">>
TxtThree == <<"3">>
TxtFive == <<"5">>

Texts == {TxtBad, TxtEightQ}

\* answers to a numeric question
NumericTexts == {TxtOne, TxtThree, TxtFive}

KnownTexts == Texts \cup NumericTexts

PhoneA == <<"+", "1", "2">>
PhoneB == <<"1", "2", "3">>
Phones == {PhoneA, PhoneB}

\* phone_number.replace('+', '').replace(' ', '').replace('-', '')
Normalize(phone) == RemoveChar(RemoveChar(RemoveChar(phone, "+"), " "), "-")

\* {"$regex": normalized_number}: an unanchored match of the digits
RegexMatch(stored, normalized) == Contains(stored, normalized)

(***************************************************************************)
(* Response Interpreter: process_survey_answer.                            *)
(***************************************************************************)
Answer(kind, ci, ct, b, v, t, tr, raw) ==
    [kind |-> kind, choice_index |-> ci, choice_text |-> ct, bool_value |-> b,
     value |-> v, text |-> t, truncated |-> tr, raw_response |-> raw]

\* the Python None returned for an invalid response
NoneAnswer == Answer("None", -1, <<>>, FALSE, Num(0, 1), <<>>, FALSE, <<>>)

ChoiceAnswer(i, opt, raw) == Answer("choice", i, opt, FALSE, Num(0, 1), <<>>, FALSE, raw)
BoolAnswer(b, raw) == Answer("bool", -1, <<>>, b, Num(0, 1), <<>>, FALSE, raw)
ValueAnswer(v, raw) == Answer("value", -1, <<>>, FALSE, v, <<>>, FALSE, raw)
TextAnswer(t, tr, raw) == Answer("text", -1, <<>>, FALSE, Num(0, 1), t, tr, raw)
\* the voice channel stores the raw input string itself
RawAnswer(raw) == Answer("raw", -1, <<>>, FALSE, Num(0, 1), <<>>, FALSE, raw)

AffirmativeSet ==
    { <<"y", "e", "s">>, <<"y">>, <<"s", "i">>, <<"o", "u", "i">>, <<"1">>,
      <<"t", "r", "u", "e">> }
NegativeSet ==
    { <<"n", "o">>, <<"n">>, <<"n", "o", "n">>, <<"0">>,
      <<"f", "a", "l", "s", "e">> }

\* variant: the match on the option texts comes before the index
MultipleChoiceAnswer_text_first(question, response_text) ==
    LET options == question.options
        parsed  == ParseInt(response_text)
        hits    == {i \in 1..Len(options) :
                       \/ Contains(Lower(options[i]), Lower(response_text))
                       \/ Contains(Lower(response_text), Lower(options[i]))}
    IN  IF hits # {}
        THEN LET i == CHOOSE j \in hits : \A k \in hits : j <= k
             IN  ChoiceAnswer(i - 1, options[i], response_text)
        ELSE IF parsed.ok /\ 1 <= parsed.v /\ parsed.v <= Len(options)
        THEN ChoiceAnswer(parsed.v - 1, options[parsed.v], response_text)
        ELSE NoneAnswer

MultipleChoiceAnswer(question, response_text) ==
    LET options == question.options
        parsed  == ParseInt(response_text)
        hits    == {i \in 1..Len(options) :
                       \/ Contains(Lower(options[i]), Lower(response_text))
                       \/ Contains(Lower(response_text), Lower(options[i]))}
    IN  IF parsed.ok /\ 1 <= parsed.v /\ parsed.v <= Len(options)
        THEN ChoiceAnswer(parsed.v - 1, options[parsed.v], response_text)
        ELSE IF hits # {}
        THEN LET i == CHOOSE j \in hits : \A k \in hits : j <= k
             IN  ChoiceAnswer(i - 1, options[i], response_text)
        ELSE NoneAnswer

YesNoAnswer(response_text) ==
    IF Lower(response_text) \in AffirmativeSet THEN BoolAnswer(TRUE, response_text)
    ELSE IF Lower(response_text) \in NegativeSet THEN BoolAnswer(FALSE, response_text)
    ELSE NoneAnswer

NumericAnswer(question, question_type, response_text) ==
    LET first == FirstNumber(response_text)
        value == first.v
    IN  IF ~first.ok THEN NoneAnswer
        ELSE IF question_type = "rating"
        THEN LET scale_min == Get(question.scale_min, 1)
                 scale_max == Get(question.scale_max, 10)
             IN  IF NumLE(Num(scale_min, 1), value) /\ NumLE(value, Num(scale_max, 1))
                 THEN ValueAnswer(value, response_text)
                 ELSE NoneAnswer
        ELSE IF /\ question.min_value # NoneVal
                /\ NumLT(value, Num(Get(question.min_value, 0), 1))
        THEN NoneAnswer
        ELSE IF /\ question.max_value # NoneVal
                /\ NumLT(Num(Get(question.max_value, 0), 1), value)
        THEN NoneAnswer
        ELSE ValueAnswer(value, response_text)

\* variant: a scale answer is the first number found in the text
ScaleAnswer_first_number(question, response_text) ==
    LET first     == FirstNumber(response_text)
        scale_min == Get(question.scale_min, 1)
        scale_max == Get(question.scale_max, 5)
    IN  IF /\ first.ok
           /\ NumLE(Num(scale_min, 1), first.v)
           /\ NumLE(first.v, Num(scale_max, 1))
        THEN ValueAnswer(first.v, response_text)
        ELSE NoneAnswer

ScaleAnswer(question, response_text) ==
    LET parsed    == ParseFloat(response_text)
        scale_min == Get(question.scale_min, 1)
        scale_max == Get(question.scale_max, 5)
    IN  IF /\ parsed.ok
           /\ NumLE(Num(scale_min, 1), parsed.v)
           /\ NumLE(parsed.v, Num(scale_max, 1))
        THEN ValueAnswer(parsed.v, response_text)
        ELSE NoneAnswer

FreeTextAnswer(question, response_text) ==
    IF Len(Strip(response_text)) > 0
    THEN IF /\ question.max_length # NoneVal
            /\ Get(question.max_length, 0) # 0
            /\ Len(response_text) > Get(question.max_length, 0)
         THEN TextAnswer(SubSeq(response_text, 1, Get(question.max_length, 0)),
                         TRUE, response_text)
         ELSE TextAnswer(Strip(response_text), FALSE, response_text)
    ELSE NoneAnswer

process_survey_answer(question, response_text) ==
    LET question_type == question.question_type
    IN  IF question_type = "multiple_choice"
        THEN MultipleChoiceAnswer(question, response_text)
        ELSE IF question_type \in {"yes_no", "boolean"}
        THEN YesNoAnswer(response_text)
        ELSE IF question_type \in {"numeric", "number", "rating"}
        THEN NumericAnswer(question, question_type, response_text)
        ELSE IF question_type = "scale"
        THEN ScaleAnswer(question, response_text)
        ELSE FreeTextAnswer(question, response_text)

(***************************************************************************)
(* Outbound messages (plain text strings in the code; here their kind, the *)
(* question or survey they are about and the range they quote).            *)
(***************************************************************************)
Message(kind, to, about, form, lo, hi) ==
    [kind |-> kind, to |-> to, about |-> about, form |-> form, lo |-> lo, hi |-> hi]

\* get_question_help_text, prefixed by "Invalid response." by the caller
get_question_help_text(question) ==
    LET question_type == question.question_type
    IN  IF question_type = "multiple_choice"
        THEN [form |-> "options", lo |-> 1, hi |-> Len(question.options)]
        ELSE IF question_type \in {"yes_no", "boolean"}
        THEN [form |-> "yes_no", lo |-> 0, hi |-> 0]
        ELSE IF question_type = "rating"
        THEN [form |-> "between", lo |-> Get(question.scale_min, 1),
              hi |-> Get(question.scale_max, 10)]
        ELSE IF question_type = "scale"
        THEN [form |-> "between", lo |-> Get(question.scale_min, 1),
              hi |-> Get(question.scale_max, 5)]
        ELSE IF question_type \in {"numeric", "number"}
        THEN IF question.min_value # NoneVal /\ question.max_value # NoneVal
             THEN [form |-> "between", lo |-> Get(question.min_value, 0),
                   hi |-> Get(question.max_value, 0)]
             ELSE IF question.min_value # NoneVal
             THEN [form |-> "minimum", lo |-> Get(question.min_value, 0), hi |-> 0]
             ELSE IF question.max_value # NoneVal
             THEN [form |-> "maximum", lo |-> 0, hi |-> Get(question.max_value, 0)]
             ELSE [form |-> "number", lo |-> 0, hi |-> 0]
        ELSE IF question.max_length # NoneVal /\ Get(question.max_length, 0) # 0
        THEN [form |-> "max_length", lo |-> 0, hi |-> Get(question.max_length, 0)]
        ELSE [form |-> "answer", lo |-> 0, hi |-> 0]

HelpMessage(to, question) ==
    LET h == get_question_help_text(question)
    IN  Message("invalid_help", to, question.id, h.form, h.lo, h.hi)

(***************************************************************************)
(* Channel Disambiguator: the question-likeness heuristic of               *)
(* handle_survey_response.                                                 *)
(***************************************************************************)
question_indicators ==
    { <<"w", "h", "a", "t">>, <<"h", "o", "w">>, <<"w", "h", "e", "n">>,
      <<"w", "h", "e", "r", "e">>, <<"w", "h", "y">>, <<"w", "h", "i", "c", "h">>,
      <<"w", "h", "o">>, <<"c", "a", "n">>, <<"c", "o", "u", "l", "d">>,
      <<"w", "o", "u", "l", "d">>, <<"s", "h", "o", "u", "l", "d">>,
      <<"i", "s">>, <<"a", "r", "e">>, <<"d", "o", "e", "s">>, <<"d", "o">>,
      <<"?">> }

\* variant: no text is taken for a question
looks_like_question_never(response_text) == FALSE

looks_like_question(response_text) ==
    LET response_lower == Strip(Lower(response_text))
    IN  \/ \E indicator \in question_indicators : Contains(response_lower, indicator)
        \/ WordCount(response_text) > 5
        \/ Contains(response_text, <<"?">>)

(***************************************************************************)
(* The pure functions above, tabulated once over the inputs of the model.  *)
(***************************************************************************)
QuestionLike == {t \in KnownTexts : looks_like_question(t)}

Interpreted ==
    [q \in KnownQuestions |->
        [t \in KnownTexts |-> process_survey_answer(q, Strip(t))]]

PhoneMatches ==
    [stored \in Phones |-> {p \in Phones : RegexMatch(stored, Normalize(p))}]


(***************************************************************************)
(* Program constants, in units of 30 minutes.                              *)
(***************************************************************************)
\* timedelta(minutes=30): the window of the recent knowledge-base call
RecentKbWindow == 1
\* timedelta(hours=2): the age above which an active session is stale
StaleSurveyAge == 4
\* timedelta(hours=24): the look-back of handle_knowledge_base_query
KbLookback == 48
\* len(response_text.strip()) > 2: the shortest text that is scored
MinScoredLen == 2

TickSteps == {RecentKbWindow, StaleSurveyAge + 1, KbLookback + 1}

\* sentiment scores, in tenths
Scores == {-5, 5}

(***************************************************************************)
(* State.                                                                  *)
(*   results  the "survey_results" collection, by insertion order          *)
(*   calls    the "calls" collection, by insertion order                   *)
(*   jobs     the sentiment tasks spawned by asyncio.create_task           *)
(*   workers  the inbound WhatsApp webhook invocations in flight           *)
(*   now      datetime.utcnow();  ticks counts the advances of the clock   *)
(*   last     the most recent handler invocation: its inputs, its routing  *)
(*            and the messages and effects it emitted, in order            *)
(*   hist     per session: completions, sentiment jobs spawned, answers    *)
(*            acknowledged to the respondent                               *)
(*   steps    the number of invocations and clock advances so far          *)
(*   surveys  the "surveys" collection: the question list of each survey   *)
(*   svc      the retrieval and token services: the "token_usage" ledger,  *)
(*            the day, the most recent call of a service function, and the *)
(*            requests that have checked their budget and not yet recorded *)
(***************************************************************************)
VARIABLES results, calls, jobs, workers, now, ticks, last, hist, steps,
          surveys, svc

vars == <<results, calls, jobs, workers, now, ticks, last, hist, steps,
          surveys, svc>>

\* survey["questions"] of the document of "surveys" with this id
SurveyQuestions(sid) == surveys[sid]

EmptyDict == [q \in {} |-> NoneAnswer]
EmptyScores == [q \in {} |-> 0]

\* d[k] = v on a Python dict
DictSet(d, k, v) == [q \in (DOMAIN d) \cup {k} |-> IF q = k THEN v ELSE d[q]]

\* SurveyResult(...).dict(): a new document of "survey_results"
SurveyResult(survey_id, call_id, phone, start_time, responses) ==
    [survey_id |-> survey_id, call_id |-> call_id,
     contact_phone_number |-> phone, start_time |-> start_time,
     end_time |-> NoneVal, completed |-> FALSE, responses |-> responses,
     current_question_index |-> 0,
     sentiment_scores |-> EmptyScores, overall_sentiment |-> NoneVal,
     sentiment_analysis_pending |-> FALSE, sentiment_analysis_failed |-> FALSE,
     auto_completed |-> FALSE, notes |-> 0]

\* a document of "calls"
CallDoc(phone, survey_id, status, owned, sid, started_at) ==
    [phone_number |-> phone, survey_id |-> survey_id, status |-> status,
     owned |-> owned, created_at |-> now, started_at |-> started_at,
     twilio_call_sid |-> sid,
     knowledge_base_only |-> FALSE, call_type |-> "",
     whatsapp_knowledge_inquiry_sent |-> FALSE,
     survey_started |-> FALSE, current_question_index |-> 0]

NoHist == [completions |-> 0, jobs |-> 0, acks |-> 0, stale_writes |-> 0]

Event(kind, to, about) == Message(kind, to, about, "", 0, 0)

NoLast == [op |-> "none", phone |-> <<>>, text |-> <<>>, route |-> "none",
           branch |-> "none", session |-> 0, trace |-> <<>>, reply |-> "none"]

NoQuestion == Question("", "", <<>>)

\* no service function has been called
NoCall == [op |-> "none", user_id |-> "", estimated_tokens |-> 0,
           within_budget |-> FALSE, failed |-> FALSE, max_tokens |-> 0,
           retrieval |-> "", documents |-> <<>>, trace |-> <<>>,
           ranked |-> <<>>, outcome |-> "",
           knowledge_base_id |-> "", relevant |-> {},
           returned |-> FALSE, raised |-> FALSE,
           question |-> NoQuestion, text |-> <<>>, answer |-> NoneAnswer]

Init ==
    /\ results = <<>>
    /\ calls = <<>>
    /\ jobs = <<>>
    /\ workers = [w \in {} |-> 0]
    /\ now = 0
    /\ ticks = 0
    /\ last = NoLast
    /\ hist = <<>>
    /\ steps = 0
    /\ surveys = [sid \in SurveyIds |-> FeedbackSurvey]
    /\ svc = [ledger |-> <<>>, today |-> 0, call |-> NoCall, requests |-> <<>>,
              documents |-> << >>]

(***************************************************************************)
(* Queries.                                                                *)
(***************************************************************************)
\* calls.find({phone_number: {$regex: n}, metadata.knowledge_base_only: True,
\*             metadata.call_type: "knowledge_base_inquiry",
\*             created_at: {$gte: utcnow() - window}})
KbCallsWithin(cls, t, phone, window) ==
    {c \in DOMAIN cls :
        /\ phone \in PhoneMatches[cls[c].phone_number]
        /\ cls[c].knowledge_base_only
        /\ cls[c].call_type = "knowledge_base_inquiry"
        /\ cls[c].created_at >= t - window}

\* survey_results.find({contact_phone_number: {$regex: n}, completed: False})
ActiveSurveys(res, phone) ==
    {r \in DOMAIN res :
        /\ phone \in PhoneMatches[res[r].contact_phone_number]
        /\ ~res[r].completed}

\* sort("start_time", -1) ... [0]; documents of one clock unit are ordered
\* by insertion, the later one being the more recent
MostRecent(res, S) ==
    CHOOSE r \in S : \A o \in S :
        \/ res[o].start_time < res[r].start_time
        \/ (res[o].start_time = res[r].start_time /\ o <= r)

(***************************************************************************)
(* handle_survey_response: the reads and the decision, as a record.        *)
(* handled is the function's return value on each path.                    *)
(***************************************************************************)
Decision(handled, branch, session, responses, index, question) ==
    [handled |-> handled, branch |-> branch, session |-> session,
     responses |-> responses, index |-> index, question |-> question]

\* variant: an old session is never overridden
StaleOverride_never(survey_age, recent_kb_calls) == FALSE

\* survey_age > timedelta(hours=2) and recent_kb_calls
StaleOverride(survey_age, recent_kb_calls) ==
    survey_age > StaleSurveyAge /\ recent_kb_calls # {}

Decide(res, cls, t, phone_number, response_text) ==
    LET recent_kb_calls == KbCallsWithin(cls, t, phone_number, RecentKbWindow)
        active_surveys  == ActiveSurveys(res, phone_number)
    IN  IF recent_kb_calls # {} /\ response_text \in QuestionLike
        THEN Decision(FALSE, "looks_like_question", 0, EmptyDict, 0, NoQuestion)
        ELSE IF active_surveys = {}
        THEN Decision(FALSE, "no_active_survey", 0, EmptyDict, 0, NoQuestion)
        ELSE
        LET r                == MostRecent(res, active_surveys)
            active_survey    == res[r]
            survey_age       == t - active_survey.start_time
            current_questions == SurveyQuestions(active_survey.survey_id)
            current_question_index == active_survey.current_question_index
        IN  IF StaleOverride(survey_age, recent_kb_calls)
            THEN Decision(FALSE, "stale_survey", r, EmptyDict, 0, NoQuestion)
            ELSE IF active_survey.survey_id \notin DOMAIN surveys
            THEN Decision(FALSE, "survey_not_found", r, EmptyDict, 0, NoQuestion)
            ELSE IF current_question_index >= Len(current_questions)
            THEN Decision(FALSE, "index_out_of_range", r, EmptyDict, 0, NoQuestion)
            ELSE
            LET current_question   == current_questions[current_question_index + 1]
                processed_response ==
                    Interpreted[current_question][response_text]
                responses ==
                    DictSet(active_survey.responses, current_question.id,
                            processed_response)
                next_question_index == current_question_index + 1
            IN  IF processed_response = NoneAnswer
                THEN Decision(TRUE, "invalid", r, active_survey.responses,
                              current_question_index, current_question)
                ELSE IF next_question_index >= Len(current_questions)
                THEN Decision(TRUE, "complete", r, responses,
                              next_question_index, current_question)
                ELSE Decision(TRUE, "next", r, responses, next_question_index,
                              current_questions[next_question_index + 1])

(***************************************************************************)
(* The writes of send_next_question and complete_survey.                   *)
(***************************************************************************)
\* variant: the stored index skips a question
send_next_question_update_skips(res, r, responses, question_index) ==
    [res EXCEPT ![r].responses = responses,
                ![r].current_question_index = question_index + 1]

\* send_next_question: update_one($set responses, current_question_index)
send_next_question_update(res, r, responses, question_index) ==
    [res EXCEPT ![r].responses = responses,
                ![r].current_question_index = question_index]

\* variant: the completion also advances the stored index
complete_survey_update_counts_last(res, r, responses, t) ==
    [res EXCEPT ![r].responses = responses,
                ![r].completed = TRUE,
                ![r].end_time = Some(t),
                ![r].sentiment_analysis_pending = TRUE,
                ![r].current_question_index = @ + 1]

\* variant: the update leaves the session active
complete_survey_update_stays_active(res, r, responses, t) ==
    [res EXCEPT ![r].responses = responses,
                ![r].end_time = Some(t),
                ![r].sentiment_analysis_pending = TRUE]

\* complete_survey: update_one($set responses, completed, end_time, pending)
complete_survey_update(res, r, responses, t) ==
    [res EXCEPT ![r].responses = responses,
                ![r].completed = TRUE,
                ![r].end_time = Some(t),
                ![r].sentiment_analysis_pending = TRUE]

\* complete_survey: the status of the session's call
complete_survey_call_update(cls, call_id) ==
    IF call_id \in DOMAIN cls
    THEN [cls EXCEPT ![call_id].status = "completed"]
    ELSE cls

\* variant: the completion starts the analysis twice
SpawnJob_twice(js, r, responses) ==
    LET job == [survey_result_id |-> r, responses |-> responses, done |-> FALSE,
                threw |-> FALSE, timed_out |-> FALSE, task_results |-> << >>]
    IN  Append(Append(js, job), job)

\* asyncio.create_task(analyze_sentiment_background(id, responses, survey))
SpawnJob(js, r, responses) ==
    Append(js, [survey_result_id |-> r, responses |-> responses, done |-> FALSE,
                threw |-> FALSE, timed_out |-> FALSE, task_results |-> << >>])

QuestionMessage(to, question, index) ==
    Message("question", to, question.id, question.question_type, index, 0)


\* variant: a rejected response is stored and the session advances
survey_response_update_stores_rejected(res, d, t) ==
    IF d.branch \in {"next", "invalid"}
    THEN send_next_question_update(res, d.session,
             DictSet(d.responses, d.question.id, NoneAnswer), d.index + 1)
    ELSE IF d.branch = "complete"
    THEN complete_survey_update(res, d.session, d.responses, t)
    ELSE res

\* handle_survey_response: the write chosen for the interpreted response
survey_response_update(res, d, t) ==
    IF d.branch = "next"
    THEN send_next_question_update(res, d.session, d.responses, d.index)
    ELSE IF d.branch = "complete"
    THEN complete_survey_update(res, d.session, d.responses, t)
    ELSE res

(***************************************************************************)
(* History bookkeeping.                                                    *)
(***************************************************************************)
Acked(h, r) == [h EXCEPT ![r].acks = @ + 1]
Completed(h, r) ==
    [h EXCEPT ![r].completions = @ + 1, ![r].jobs = @ + 1, ![r].acks = @ + 1]

(***************************************************************************)
(* handle_knowledge_base_query and store_message_in_survey_context.        *)
(***************************************************************************)
\* what retrieval and generation can yield: empty content, an answer, no
\* answer from the language model, or an exception
KbOutcomes == {"fallback", "success", "error", "exception"}

\* the message handle_knowledge_base_query sends for an outcome
KbReply(to, outcome) ==
    Event(CASE outcome = "fallback" -> "kb_fallback"
            [] outcome = "success" -> "kb_answer"
            [] outcome = "error" -> "kb_error"
            [] OTHER -> "kb_technical_difficulties", to, "")

\* the return value of handle_knowledge_base_query
handle_knowledge_base_query(cls, t, phone_number, outcome) ==
    /\ KbCallsWithin(cls, t, phone_number, KbLookback) # {}
    /\ outcome # "exception"

\* variant: the look-back finds no call
KbReplies_never(cls, t, phone_number) == FALSE

\* whether handle_knowledge_base_query gets past "no recent calls" and replies
KbReplies(cls, t, phone_number) ==
    KbCallsWithin(cls, t, phone_number, KbLookback) # {}

\* survey_results.find({contact_phone_number: {$regex: n}})
\*     .sort("start_time", -1).limit(1): active or completed
ContextSurveys(res, phone) ==
    {r \in DOMAIN res : phone \in PhoneMatches[res[r].contact_phone_number]}

\* $push metadata.messages on the most recent session of the number, if any
store_message_in_survey_context(res, phone_number) ==
    LET found == ContextSurveys(res, phone_number)
    IN  IF found = {} THEN res
        ELSE [res EXCEPT ![MostRecent(res, found)].notes = @ + 1]

\* the webhook's routing of one text message
Route(d, cls, t, phone_number, outcome) ==
    IF d.handled THEN "SurveyAnswer"
    ELSE IF KbReplies(cls, t, phone_number) THEN "KnowledgeQuery"
    ELSE "Unclassified"

(***************************************************************************)
(* nexmo_inbound_webhook for one text message, handled from its first read *)
(* to its reply with no other handler in between.                          *)
(***************************************************************************)
\* variant: the job is spawned before the outro is sent
SurveyTrace_job_first(d, phone_number) ==
    IF d.branch = "invalid"
    THEN << HelpMessage(phone_number, d.question) >>
    ELSE IF d.branch = "next"
    THEN << QuestionMessage(phone_number, d.question, d.index),
            Event("persist_next", <<>>, d.question.id) >>
    ELSE << Event("spawn_sentiment_job", <<>>, ""),
            Event("outro", phone_number, results[d.session].survey_id),
            Event("persist_completed", <<>>, "") >>

SurveyTrace(d, phone_number) ==
    IF d.branch = "invalid"
    THEN << HelpMessage(phone_number, d.question) >>
    ELSE IF d.branch = "next"
    THEN << QuestionMessage(phone_number, d.question, d.index),
            Event("persist_next", <<>>, d.question.id) >>
    ELSE << Event("outro", phone_number, results[d.session].survey_id),
            Event("persist_completed", <<>>, ""),
            Event("spawn_sentiment_job", <<>>, "") >>

nexmo_inbound_webhook(from_number, text_content) ==
    /\ workers = [w \in {} |-> 0]
    /\ \E d \in {Decide(results, calls, now, from_number, text_content)} :
       \E outcome \in (IF ~d.handled /\ KbReplies(calls, now, from_number)
                       THEN KbOutcomes ELSE {"fallback"}) :
       LET route == Route(d, calls, now, from_number, outcome)
           stored == ~d.handled
                     /\ ~handle_knowledge_base_query(calls, now, from_number, outcome)
       IN
        /\ d.branch = "complete" => Len(jobs) < MaxJobs
        /\ stored =>
              \A r \in ContextSurveys(results, from_number) : results[r].notes < MaxNotes
        /\ results' =
              IF d.handled
              THEN survey_response_update(results, d, now)
              ELSE IF stored
              THEN store_message_in_survey_context(results, from_number)
              ELSE results
        /\ calls' =
              IF d.branch = "complete"
              THEN complete_survey_call_update(calls, results[d.session].call_id)
              ELSE calls
        /\ jobs' =
              IF d.branch = "complete"
              THEN SpawnJob(jobs, d.session, d.responses)
              ELSE jobs
        /\ hist' =
              IF d.branch = "next" THEN Acked(hist, d.session)
              ELSE IF d.branch = "complete" THEN Completed(hist, d.session)
              ELSE hist
        /\ last' = [op |-> "nexmo_inbound", phone |-> from_number,
                    text |-> text_content, route |-> route, branch |-> d.branch,
                    session |-> d.session,
                    trace |->
                       IF d.handled THEN SurveyTrace(d, from_number)
                       ELSE (IF route = "KnowledgeQuery"
                             THEN << KbReply(from_number, outcome) >> ELSE << >>)
                            \o (IF stored /\ ContextSurveys(results, from_number) # {}
                                THEN << Event("store_context", <<>>, "") >>
                                ELSE << >>),
                    reply |-> "success"]
    /\ UNCHANGED <<workers, now, ticks>>

(***************************************************************************)
(* analyze_sentiment_background: one spawned task, from its start to its   *)
(* update of the session.                                                  *)
(***************************************************************************)
\* the text that is scored for one stored response
ExtractText(response_data) ==
    IF response_data.kind = "text" THEN response_data.text
    ELSE response_data.raw_response

\* the responses for which a scoring task is created
ScoredQuestions(survey_id, responses) ==
    {q \in DOMAIN responses :
        /\ \E i \in 1..Len(SurveyQuestions(survey_id)) :
               SurveyQuestions(survey_id)[i].id = q
        /\ Len(Strip(ExtractText(responses[q]))) > MinScoredLen}

\* what one analyze_single_response task returns: a score, or the failure
\* record it builds when the analyzer throws
TaskResults ==
    {[success |-> TRUE, score |-> sc] : sc \in Scores}
        \cup {[success |-> FALSE, score |-> 0]}

RECURSIVE SumOver(_, _)
SumOver(f, S) ==
    IF S = {} THEN 0
    ELSE LET q == CHOOSE x \in S : TRUE IN f[q] + SumOver(f, S \ {q})

RECURSIVE Gcd(_, _)
Gcd(a, b) == IF b = 0 THEN a ELSE Gcd(b, a % b)

Abs(x) == IF x < 0 THEN 0 - x ELSE x

\* n / d as a fraction in lowest terms
Fraction(n, d) ==
    LET g == Gcd(Abs(n), d) IN Num(n \div g, d \div g)

\* variant: one failed task leaves no score at all
SentimentScores_aborts(tasks, task_results, timed_out) ==
    IF timed_out \/ \E q \in tasks : ~task_results[q].success THEN EmptyScores
    ELSE [q \in tasks |-> task_results[q].score]

\* the sentiment_scores built from the gathered results
SentimentScores(tasks, task_results, timed_out) ==
    IF timed_out THEN EmptyScores
    ELSE [q \in tasks |-> IF task_results[q].success THEN task_results[q].score ELSE 0]

\* sum(sentiment_scores.values()) / len(sentiment_scores), 0.0 when empty
OverallSentiment(sentiment_scores) ==
    IF DOMAIN sentiment_scores = {} THEN Num(0, 1)
    ELSE Fraction(SumOver(sentiment_scores, DOMAIN sentiment_scores),
                  Cardinality(DOMAIN sentiment_scores))

\* variant: the update leaves the pending flag set
sentiment_update_keeps_pending(res, r, sentiment_scores) ==
    [res EXCEPT ![r].sentiment_scores = sentiment_scores,
                ![r].overall_sentiment = Some(OverallSentiment(sentiment_scores))]

\* the update_one that persists the outcome of the job
sentiment_update(res, r, sentiment_scores) ==
    [res EXCEPT ![r].sentiment_scores = sentiment_scores,
                ![r].overall_sentiment = Some(OverallSentiment(sentiment_scores)),
                ![r].sentiment_analysis_pending = FALSE]

analyze_sentiment_background(j) ==
    /\ j \in DOMAIN jobs
    /\ ~jobs[j].done
    /\ LET job   == jobs[j]
           tasks == ScoredQuestions(results[job.survey_result_id].survey_id,
                                    job.responses)
       IN  \E task_results \in [tasks -> TaskResults], timed_out \in BOOLEAN :
             /\ timed_out => \A q \in tasks : ~task_results[q].success
             /\ results' = sentiment_update(results, job.survey_result_id,
                               SentimentScores(tasks, task_results, timed_out))
             /\ jobs' = [jobs EXCEPT ![j].done = TRUE,
                                     ![j].threw = tasks # {} /\ ~timed_out /\
                                         \A q \in tasks : ~task_results[q].success,
                                     ![j].timed_out = timed_out,
                                     ![j].task_results = task_results]
    /\ UNCHANGED <<calls, workers, now, ticks, hist, last>>


(***************************************************************************)
(* api/calls.py: creation of calls and sessions, auto-completion.          *)
(***************************************************************************)
\* send_whatsapp_survey_internal: insert_one of a new session for the call's
\* number (no look-up of the sessions the number already has), then the
\* first question
send_whatsapp_survey_internal(res, call_id, survey_id, phone_number) ==
    Append(res, SurveyResult(survey_id, call_id, phone_number, now, EmptyDict))

\* variant: no session is cleared
clear_pending_surveys_for_phone_none(res, phone_number) == res

\* clear_pending_surveys_for_phone: the sessions it marks completed
clear_pending_surveys_for_phone(res, phone_number) ==
    [r \in DOMAIN res |->
        IF r \in ActiveSurveys(res, phone_number)
        THEN [res[r] EXCEPT !.completed = TRUE,
                            !.end_time = Some(now),
                            !.auto_completed = TRUE,
                            !.overall_sentiment = NoneVal]
        ELSE res[r]]

\* clear_pending_surveys_for_phone: the status of the calls of those sessions
clear_pending_calls(cls, res, phone_number) ==
    [c \in DOMAIN cls |->
        IF \E r \in ActiveSurveys(res, phone_number) : res[r].call_id = c
        THEN [cls[c] EXCEPT !.status = "auto_completed"]
        ELSE cls[c]]

\* POST /calls/ : knowledge_base_only reads call.metadata, a field CallCreate
\* does not declare (models/call.py), so that mode raises before the insert;
\* otherwise the call is inserted and, if asked, the survey is sent
create_call(phone_number, survey_id, send_whatsapp_survey, knowledge_base_only) ==
    /\ Len(calls) < MaxCalls
    /\ IF knowledge_base_only
       THEN /\ ~send_whatsapp_survey
            /\ UNCHANGED <<calls, results, hist>>
            /\ last' = NoLast
       ELSE /\ calls' = Append(calls, CallDoc(phone_number, survey_id, "scheduled",
                                              TRUE, FALSE, NoneVal))
            /\ IF send_whatsapp_survey
               THEN /\ Len(results) < MaxSessions
                    /\ results' = send_whatsapp_survey_internal(
                                     results, Len(calls) + 1, survey_id, phone_number)
                    /\ hist' = Append(hist, NoHist)
               ELSE UNCHANGED <<results, hist>>
            /\ last' = NoLast
    /\ UNCHANGED <<jobs, workers, now, ticks>>

\* POST /calls/{id}/send-whatsapp-survey on a call of the user with a survey
send_whatsapp_survey(call_id) ==
    /\ call_id \in DOMAIN calls
    /\ calls[call_id].owned
    /\ calls[call_id].survey_id \in DOMAIN surveys
    /\ Len(results) < MaxSessions
    /\ results' = send_whatsapp_survey_internal(results, call_id,
                      calls[call_id].survey_id, calls[call_id].phone_number)
    /\ hist' = Append(hist, NoHist)
    /\ last' = NoLast
    /\ UNCHANGED <<calls, jobs, workers, now, ticks>>

\* send_whatsapp_knowledge_inquiry: the metadata it writes on its call
knowledge_inquiry_sent_update(cls, call_id) ==
    [cls EXCEPT ![call_id].whatsapp_knowledge_inquiry_sent = TRUE]

\* POST /calls/knowledge-inquiry : the metadata keyword is not a field of
\* CallCreate, so the stored document has CallDB's default metadata {}
create_knowledge_inquiry(phone_number, send_immediately) ==
    /\ Len(calls) < MaxCalls
    /\ LET inserted == Append(calls, CallDoc(phone_number, "", "scheduled",
                                             TRUE, FALSE, NoneVal))
       IN  IF send_immediately
           THEN /\ results' = clear_pending_surveys_for_phone(results, phone_number)
                /\ calls' = knowledge_inquiry_sent_update(
                                clear_pending_calls(inserted, results, phone_number),
                                Len(inserted))
           ELSE /\ calls' = inserted
                /\ UNCHANGED results
    /\ last' = NoLast
    /\ UNCHANGED <<jobs, workers, now, ticks, hist>>

\* PUT /calls/{id} with a metadata body and no status: allowed while the call
\* is scheduled or failed; $set replaces the whole metadata document
update_call(call_id, knowledge_base_only, call_type) ==
    /\ call_id \in DOMAIN calls
    /\ calls[call_id].owned
    /\ calls[call_id].status \in {"scheduled", "failed"}
    /\ calls' = [calls EXCEPT ![call_id].knowledge_base_only = knowledge_base_only,
                              ![call_id].call_type = call_type,
                              ![call_id].whatsapp_knowledge_inquiry_sent = FALSE,
                              ![call_id].survey_started = FALSE,
                              ![call_id].current_question_index = 0]
    /\ calls' # calls
    /\ last' = NoLast
    /\ UNCHANGED <<results, jobs, workers, now, ticks, hist>>

(***************************************************************************)
(* api/twilio_webhooks.py: the voice channel.                              *)
(***************************************************************************)
VoiceInputs == {TxtOne}

\* POST /voice for a CallSid not seen before: a call document for the caller
twilio_voice_webhook(from_number, default_survey_id) ==
    /\ Len(calls) < MaxCalls
    /\ calls' = Append(calls, CallDoc(from_number, default_survey_id, "in-progress",
                                      FALSE, TRUE, Some(now)))
    /\ last' = NoLast
    /\ UNCHANGED <<results, jobs, workers, now, ticks, hist>>

\* survey_results.find_one({call_id, survey_id})
VoiceResult(res, call_id, survey_id) ==
    {r \in DOMAIN res : res[r].call_id = call_id /\ res[r].survey_id = survey_id}

FirstOf(S) == CHOOSE r \in S : \A o \in S : r <= o

\* POST /gather after its find_one of the call: what it does with the call
\* document it has read
gather_writes(call_id, call, response_value) ==
    /\ LET questions == SurveyQuestions(call.survey_id)
           current_index == call.current_question_index
           found     == VoiceResult(results, call_id, call.survey_id)
           answered  == [calls EXCEPT ![call_id].current_question_index = current_index + 1]
       IN  IF call.survey_id \notin DOMAIN surveys
           THEN /\ UNCHANGED <<calls, results, hist>>
           ELSE IF ~call.survey_started
           THEN /\ calls' = [calls EXCEPT ![call_id].survey_started = TRUE,
                                          ![call_id].current_question_index = 0]
                /\ UNCHANGED <<results, hist>>
           ELSE IF current_index >= Len(questions)
           THEN /\ calls' = [calls EXCEPT ![call_id].status = "completed"]
                /\ UNCHANGED <<results, hist>>
           ELSE IF found = {} /\ call.started_at = NoneVal
           THEN \* SurveyResult(start_time=None) is rejected: error TwiML
                /\ UNCHANGED <<calls, results, hist>>
           ELSE /\ IF found # {}
                   THEN /\ results' =
                             [results EXCEPT ![FirstOf(found)].responses =
                                 DictSet(@, questions[current_index + 1].id,
                                         RawAnswer(response_value))]
                        /\ UNCHANGED hist
                   ELSE /\ Len(results) < MaxSessions
                        /\ results' = Append(results,
                             SurveyResult(call.survey_id, call_id, call.phone_number,
                                 Get(call.started_at, now),
                                 DictSet(EmptyDict, questions[current_index + 1].id,
                                         RawAnswer(response_value))))
                        /\ hist' = Append(hist, NoHist)
                /\ calls' = answered
    /\ last' = NoLast
    /\ UNCHANGED <<jobs, now, ticks>>

\* POST /gather
twilio_gather_webhook(call_id, response_value) ==
    /\ call_id \in DOMAIN calls
    /\ calls[call_id].twilio_call_sid
    /\ gather_writes(call_id, calls[call_id], response_value)
    /\ UNCHANGED workers

(***************************************************************************)
(* The clock.                                                              *)
(***************************************************************************)
Tick(step) ==
    /\ ticks < MaxTicks
    /\ now' = now + step
    /\ ticks' = ticks + 1
    /\ last' = NoLast
    /\ UNCHANGED <<results, calls, jobs, workers, hist>>

(***************************************************************************)
(* One handler at a time.                                                  *)
(***************************************************************************)
\* one invocation, counted against the bound of the exploration
Counted == steps < MaxSteps /\ steps' = steps + 1

Inbound ==
    /\ UNCHANGED <<surveys, svc>>
    /\ Counted
    /\ \E p \in Phones, t \in Texts : nexmo_inbound_webhook(p, t)

\* a spawned task is no invocation of its own: it is bounded by MaxJobs
SentimentJob ==
    /\ UNCHANGED <<surveys, svc>>
    /\ \E j \in 1..MaxJobs : analyze_sentiment_background(j)
    /\ UNCHANGED steps

CreateCall ==
    /\ UNCHANGED <<surveys, svc>>
    /\ Counted
    /\ \E p \in Phones, s \in DOMAIN surveys, send \in BOOLEAN, kb \in BOOLEAN :
          create_call(p, s, send, kb)

SendSurvey ==
    /\ UNCHANGED <<surveys, svc>>
    /\ Counted
    /\ \E c \in 1..MaxCalls : send_whatsapp_survey(c)

CreateKnowledgeInquiry ==
    /\ UNCHANGED <<surveys, svc>>
    /\ Counted
    /\ \E p \in Phones, send \in BOOLEAN : create_knowledge_inquiry(p, send)

UpdateCall ==
    /\ UNCHANGED <<surveys, svc>>
    /\ Counted
    /\ \E c \in 1..MaxCalls : update_call(c, TRUE, "knowledge_base_inquiry")

VoiceCall ==
    /\ UNCHANGED <<surveys, svc>>
    /\ Counted
    /\ \E p \in Phones, s \in DOMAIN surveys : twilio_voice_webhook(p, s)

Gather ==
    /\ UNCHANGED <<surveys, svc>>
    /\ Counted
    /\ \E c \in 1..MaxCalls, v \in VoiceInputs : twilio_gather_webhook(c, v)

\* gather inputs no question of the survey accepts: neither digits nor
\* speech, and a digit that is no option
UnansweredInputs == {<<>>, TxtThree}

\* a gather whose Digits and SpeechResult answer nothing
GatherUnanswered ==
    /\ UNCHANGED <<surveys, svc>>
    /\ Counted
    /\ \E c \in 1..MaxCalls, v \in UnansweredInputs : twilio_gather_webhook(c, v)

Clock ==
    /\ UNCHANGED <<surveys, svc>>
    /\ Counted
    /\ \E step \in TickSteps : Tick(step)

(***************************************************************************)
(* api/surveys.py: the requests that write the "surveys" collection, and   *)
(* the branching condition of services/llm/orchestrator.py.                *)
(***************************************************************************)
\* POST /surveys/ : insert_one of a new document, under a fresh id
create_survey(survey_id, questions) ==
    /\ survey_id \notin DOMAIN surveys
    /\ surveys' = (survey_id :> questions) @@ surveys
    /\ last' = NoLast
    /\ UNCHANGED <<results, calls, jobs, workers, now, ticks, hist>>

\* PUT /surveys/{id} : $set of every field of the body that is not None;
\* the sessions of the survey are not looked at
update_survey(survey_id, questions) ==
    /\ survey_id \in DOMAIN surveys
    /\ surveys' = IF questions = NoneVal
                  THEN surveys
                  ELSE [surveys EXCEPT ![survey_id] = Get(questions, <<>>)]
    /\ last' = NoLast
    /\ UNCHANGED <<results, calls, jobs, workers, now, ticks, hist>>

\* DELETE /surveys/{id} : delete_one; the sessions of the survey are not
\* looked at
delete_survey(survey_id) ==
    /\ survey_id \in DOMAIN surveys
    /\ surveys' = [sid \in DOMAIN surveys \ {survey_id} |-> surveys[sid]]
    /\ last' = NoLast
    /\ UNCHANGED <<results, calls, jobs, workers, now, ticks, hist>>

\* analyze_response: analysis["condition"] of an answer ("" for None)
BranchCondition(question, response) ==
    IF question.question_type = "numeric"
    THEN LET rating == ParseInt(Strip(response))
         IN  IF ~rating.ok THEN ""
             ELSE IF rating.v <= 2 THEN "1-2"
             ELSE IF rating.v = 3 THEN "3"
             ELSE "4-5"
    ELSE ""

CreateSurvey ==
    /\ UNCHANGED svc
    /\ Counted
    /\ \E sid \in AllSurveyIds, qs \in SurveyTemplates : create_survey(sid, qs)

UpdateSurvey ==
    /\ UNCHANGED svc
    /\ Counted
    /\ \E sid \in AllSurveyIds, qs \in {NoneVal} \cup {Some(t) : t \in SurveyTemplates} :
          update_survey(sid, qs)

DeleteSurvey ==
    /\ UNCHANGED svc
    /\ Counted
    /\ \E sid \in AllSurveyIds : delete_survey(sid)

\* an inbound WhatsApp message that is a number
InboundNumeric ==
    /\ UNCHANGED <<surveys, svc>>
    /\ Counted
    /\ \E p \in Phones, t \in NumericTexts : nexmo_inbound_webhook(p, t)

\* the texts a respondent answers with: "1" is valid for every question of
\* the question lists
RespondentTexts == {TxtOne}

\* the texts the respondent of session r can send as a valid answer to the
\* question the session is at; when that question is no longer in the
\* survey, any text the respondent knows
ValidTexts(r) ==
    LET sid == results[r].survey_id
        i   == results[r].current_question_index
    IN  IF sid \in DOMAIN surveys /\ i < Len(SurveyQuestions(sid))
        THEN {t \in RespondentTexts :
                 Interpreted[SurveyQuestions(sid)[i + 1]][t] # NoneAnswer}
        ELSE RespondentTexts

\* the respondent of the active session r sends one more valid answer; the
\* respondent's messages are not counted against the bound of the exploration
answer_valid(r) ==
    /\ r \in DOMAIN results
    /\ ~results[r].completed
    /\ \E t \in ValidTexts(r) :
          nexmo_inbound_webhook(results[r].contact_phone_number, t)
    /\ UNCHANGED <<surveys, svc, steps>>

ValidAnswer ==
    /\ UNCHANGED <<surveys, svc>>
    /\ \E r \in 1..MaxSessions : answer_valid(r)

(***************************************************************************)
(* services/rag/enhanced_retriever.py.  A hit is known by the length of    *)
(* its content in characters, which is all the packing looks at.           *)
(***************************************************************************)
\* remaining_tokens > 100: the least allowance worth a compression
MinUsefulTokens == 100
\* max_tokens=1000 in handle_knowledge_base_query
KbMaxTokens == 1000
\* max_tokens: int = 2000, the default of retrieve_optimized_context
DefaultMaxTokens == 2000
\* documents[:3], the result of a packing that raised
FallbackDocs == 3

MaxDocs == 2

\* len(content) of the hits the vector search returns
DocChars == {200, 3600, 4400}

\* ranked_docs: the hits after deduplication and ranking
RankedDocs ==
    UNION {[1..n -> [content : DocChars, compressed : {FALSE}]] : n \in 1..MaxDocs}

\* _count_tokens: max(1, len(text) // 4)
count_tokens(chars) == IF chars \div 4 > 1 THEN chars \div 4 ELSE 1

\* what the compression call can give back: nothing (it raised, or the
\* text is empty), a text of 4 characters per requested token, or one of 5
CompressOutcomes == {"none", "short", "long"}

\* _compress_document: the length of the text it returns, if any
compress_document(target_tokens, outcome) ==
    IF outcome = "none" THEN NoneVal
    ELSE IF outcome = "short" THEN Some(target_tokens * 4)
    ELSE Some(target_tokens * 5)

\* the loop of _optimize_for_tokens from document i on
RECURSIVE optimize_from(_, _, _, _, _, _)
optimize_from(documents, i, optimized_docs, current_tokens, max_tokens, outcome) ==
    IF i > Len(documents) THEN optimized_docs
    ELSE
    LET doc_tokens == count_tokens(documents[i].content)
        remaining_tokens == max_tokens - current_tokens
        compressed_content == compress_document(remaining_tokens, outcome)
    IN  IF current_tokens + doc_tokens <= max_tokens
        THEN optimize_from(documents, i + 1, Append(optimized_docs, documents[i]),
                           current_tokens + doc_tokens, max_tokens, outcome)
        ELSE IF remaining_tokens > MinUsefulTokens /\ compressed_content # NoneVal
        THEN Append(optimized_docs,
                    [content |-> Get(compressed_content, 0), compressed |-> TRUE])
        ELSE optimized_docs

\* variant: the hit that would overflow is dropped without a compression
optimize_for_tokens_drops_overflow(documents, max_tokens, outcome, packing_fails) ==
    IF packing_fails
    THEN SubSeq(documents, 1, IF Len(documents) < FallbackDocs
                              THEN Len(documents) ELSE FallbackDocs)
    ELSE optimize_from(documents, 1, <<>>, 0, max_tokens, "none")

\* _optimize_for_tokens: the hits it returns; a packing that raises gives
\* the first three ranked hits as they are
optimize_for_tokens(documents, max_tokens, outcome, packing_fails) ==
    IF packing_fails
    THEN SubSeq(documents, 1, IF Len(documents) < FallbackDocs
                              THEN Len(documents) ELSE FallbackDocs)
    ELSE optimize_from(documents, 1, <<>>, 0, max_tokens, outcome)

\* the sum of the token counts of hits
TokensOf(hits) ==
    SumOver([i \in 1..Len(hits) |-> count_tokens(hits[i].content)], 1..Len(hits))

\* whether the packing reaches its call of _compress_document: some hit
\* overflows after hits that fit, with more than the least allowance left
Compresses(documents, max_tokens) ==
    \E k \in 1..Len(documents) :
        LET used == TokensOf(SubSeq(documents, 1, k - 1))
        IN  /\ used <= max_tokens
            /\ used + count_tokens(documents[k].content) > max_tokens
            /\ max_tokens - used > MinUsefulTokens

\* what the searches of retrieve_optimized_context can come to
RetrievalCases == {"no_documents", "no_hits", "error", "hits"}

\* retrieve_optimized_context: the hits of RetrievalResult.content
retrieve_optimized_context(case, documents, max_tokens, outcome, packing_fails) ==
    IF case # "hits" THEN <<>>
    ELSE optimize_for_tokens(documents, max_tokens, outcome, packing_fails)

\* the calls of the language model retrieve_optimized_context makes; the
\* query is not enhanced when the conversation history is empty
RetrievalTrace(case, documents, max_tokens, packing_fails) ==
    IF case = "hits" /\ ~packing_fails /\ Compresses(documents, max_tokens)
    THEN << Event("llm_call", <<>>, "compress_document") >>
    ELSE << >>

\* the budgets retrieve_optimized_context is called with
MaxTokenChoices == {KbMaxTokens, DefaultMaxTokens}

\* one call of retrieve_optimized_context
retrieve(case, documents, max_tokens, outcome, packing_fails) ==
    /\ svc' = [svc EXCEPT !.call =
          [NoCall EXCEPT
             !.op = "retrieve_optimized_context",
             !.max_tokens = max_tokens,
             !.failed = packing_fails,
             !.retrieval = case,
             !.ranked = IF case = "hits" THEN documents ELSE <<>>,
             !.outcome = IF case = "hits" THEN outcome ELSE "",
             !.documents = retrieve_optimized_context(
                              case, documents, max_tokens, outcome, packing_fails),
             !.trace = RetrievalTrace(case, documents, max_tokens, packing_fails)]]

\* what cot_engine.generate can come to: a text, no text, an exception
Generations == {"answer", "empty", "raises"}

\* variant: an answer is generated whatever was retrieved
KbQueryTrace_always_generates(phone_number, hits, retrieval_trace, generation) ==
    retrieval_trace \o
    << Event("llm_call", <<>>, "generate"),
       KbReply(phone_number,
               CASE generation = "answer" -> "success"
                 [] generation = "empty" -> "error"
                 [] OTHER -> "exception") >>

\* handle_knowledge_base_query from its retrieval on: the calls of the
\* language model and the message it sends
KbQueryTrace(phone_number, hits, retrieval_trace, generation) ==
    retrieval_trace \o
    (IF hits = <<>>
     THEN << KbReply(phone_number, "fallback") >>
     ELSE << Event("llm_call", <<>>, "generate"),
             KbReply(phone_number,
                     CASE generation = "answer" -> "success"
                       [] generation = "empty" -> "error"
                       [] OTHER -> "exception") >>)

\* one call of handle_knowledge_base_query for a number with a recent
\* knowledge-base call of owner user_id
knowledge_query(phone_number, user_id, case, documents, outcome, fails, generation) ==
    /\ LET hits == retrieve_optimized_context(
                       case, documents, KbMaxTokens, outcome, fails)
       IN  svc' = [svc EXCEPT !.call =
             [NoCall EXCEPT
                !.op = "handle_knowledge_base_query",
                !.user_id = user_id,
                !.max_tokens = KbMaxTokens,
                !.failed = fails,
                !.retrieval = case,
                !.documents = hits,
                !.trace = KbQueryTrace(phone_number, hits,
                             RetrievalTrace(case, documents, KbMaxTokens,
                                            fails),
                             generation),
                !.returned = (hits = <<>> \/ generation # "raises")]]

Users == {"u1", "u2"}

\* the sessions, the calls and the webhooks, which the services leave alone
core == <<results, calls, jobs, workers, now, ticks, last, hist, steps>>

Retrieve ==
    /\ UNCHANGED <<core, surveys>>
    /\ \E case \in RetrievalCases, documents \in RankedDocs,
       max_tokens \in MaxTokenChoices, outcome \in CompressOutcomes,
       packing_fails \in BOOLEAN :
          retrieve(case, documents, max_tokens, outcome, packing_fails)

KnowledgeQuery ==
    /\ UNCHANGED <<core, surveys>>
    /\ \E p \in Phones, u \in Users, case \in RetrievalCases,
       documents \in RankedDocs, outcome \in CompressOutcomes,
       packing_fails \in BOOLEAN, generation \in Generations :
          knowledge_query(p, u, case, documents, outcome, packing_fails, generation)

(***************************************************************************)
(* api/knowledge.py and _get_filtered_documents: the documents collection  *)
(* is a function from the ids of the stored documents to their fields.     *)
(***************************************************************************)
\* the ids a document can have; each is a valid ObjectId
DocIds == {"d1", "d2"}

\* the names documents are uploaded under
DocNames == {"handbook", "faq"}

\* the knowledge_base_id values of a retrieval context: none, the general
\* knowledge base, the id of a document that may be stored, an id no
\* document has, and a document name
KnowledgeBaseIds == {"", "general", "d1", "d2", "d9", "handbook"}

\* ObjectId(knowledge_base_id) does not raise
IsObjectId(knowledge_base_id) == knowledge_base_id \in DocIds \cup {"d9"}

\* upload_document: a new document of the user, still to be processed
upload_document(document_id, owner_id, name) ==
    /\ document_id \notin DOMAIN svc.documents
    /\ svc' = [svc EXCEPT !.documents =
          DictSet(@, document_id,
                  [owner_id |-> owner_id, name |-> name,
                   status |-> "processing", vector_collection_name |-> FALSE])]

\* process_document: the background task ends with the document processed
\* and its vector collection named, or with status failed
process_document(document_id, ok) ==
    /\ document_id \in DOMAIN svc.documents
    /\ svc.documents[document_id].status = "processing"
    /\ svc' = [svc EXCEPT !.documents[document_id] =
          IF ok THEN [@ EXCEPT !.status = "processed",
                               !.vector_collection_name = TRUE]
          ELSE [@ EXCEPT !.status = "failed"]]

\* delete_document, by the owner of the document
delete_document(document_id) ==
    /\ document_id \in DOMAIN svc.documents
    /\ svc' = [svc EXCEPT !.documents =
          [d \in DOMAIN @ \ {document_id} |-> @[d]]]

\* the base query of _get_filtered_documents: the owner's processed
\* documents that have a vector collection
Eligible(documents, user_id) ==
    {d \in DOMAIN documents :
        /\ documents[d].owner_id = user_id
        /\ documents[d].status = "processed"
        /\ documents[d].vector_collection_name}

\* _get_filtered_documents: the ids of the documents the query finds
get_filtered_documents(documents, user_id, knowledge_base_id) ==
    IF knowledge_base_id \in {"", "general", "default", "none"}
    THEN Eligible(documents, user_id)
    ELSE IF IsObjectId(knowledge_base_id)
    THEN {d \in Eligible(documents, user_id) : d = knowledge_base_id}
    ELSE {d \in Eligible(documents, user_id) :
             documents[d].name = knowledge_base_id}

\* what the vector search over the relevant documents can come to
SearchCases == {"no_hits", "error", "hits"}

\* retrieve_optimized_context up to its search: the documents it searches
\* and what the retrieval comes to
retrieve_for_context(user_id, knowledge_base_id, case) ==
    /\ LET relevant_docs == get_filtered_documents(
                                svc.documents, user_id, knowledge_base_id)
       IN  svc' = [svc EXCEPT !.call =
             [NoCall EXCEPT
                !.op = "retrieve_optimized_context",
                !.user_id = user_id,
                !.knowledge_base_id = knowledge_base_id,
                !.relevant = relevant_docs,
                !.retrieval = IF relevant_docs = {} THEN "no_documents"
                              ELSE case]]

UploadDocument ==
    /\ UNCHANGED <<core, surveys>>
    /\ \E d \in DocIds, u \in Users, n \in DocNames : upload_document(d, u, n)

ProcessDocument ==
    /\ UNCHANGED <<core, surveys>>
    /\ \E d \in DocIds, ok \in BOOLEAN : process_document(d, ok)

DeleteDocument ==
    /\ UNCHANGED <<core, surveys>>
    /\ \E d \in DocIds : delete_document(d)

RetrieveForContext ==
    /\ UNCHANGED <<core, surveys>>
    /\ \E u \in Users, kb \in KnowledgeBaseIds, case \in SearchCases :
          retrieve_for_context(u, kb, case)

(***************************************************************************)
(* services/optimization/token_optimizer.py: the budget check and the      *)
(* "token_usage" ledger; services/llm/orchestrator.py and                  *)
(* services/sentiment/analyzer.py: the requests that call the model.       *)
(* Timestamps are days; a month has DaysPerMonth days.                     *)
(***************************************************************************)
\* TokenBudget: daily_limit, monthly_limit, per_request_limit
DailyLimit == 50000
MonthlyLimit == 1000000
PerRequestLimit == 4000

MaxLedger == 3
MaxDay == 2
DaysPerMonth == 2

\* total_tokens of a usage record
TokenAmounts == {46000, 996000}

\* estimated_tokens of a budget check
Estimates == {4000, 4001}

\* the document record_usage inserts (the fields the budget check reads)
UsageRecord(user_id, timestamp, total_tokens) ==
    [user_id |-> user_id, timestamp |-> timestamp, total_tokens |-> total_tokens]

\* now.replace(hour=0, ...) and now.replace(day=1, hour=0, ...)
StartOfDay(day) == day
StartOfMonth(day) == (day \div DaysPerMonth) * DaysPerMonth

\* the aggregate of check_budget: $match on user_id and timestamp >= start,
\* $sum of total_tokens; 0 when nothing matches
UsageSince(ledger, user_id, start) ==
    LET matched == {i \in 1..Len(ledger) :
                       ledger[i].user_id = user_id /\ ledger[i].timestamp >= start}
    IN  SumOver([i \in 1..Len(ledger) |-> ledger[i].total_tokens], matched)

\* variant: a request that reaches the daily limit exactly is denied
WithinBudget_strict(daily_total, monthly_total, estimated_tokens) ==
    /\ daily_total + estimated_tokens < DailyLimit
    /\ monthly_total + estimated_tokens <= MonthlyLimit
    /\ estimated_tokens <= PerRequestLimit

\* "within_budget" of check_budget
WithinBudget(daily_total, monthly_total, estimated_tokens) ==
    /\ daily_total + estimated_tokens <= DailyLimit
    /\ monthly_total + estimated_tokens <= MonthlyLimit
    /\ estimated_tokens <= PerRequestLimit

\* variant: an exception of the reads leaves check_budget
check_budget_propagates(estimated_tokens, user_id, read_fails) ==
    LET daily_total   == UsageSince(svc.ledger, user_id, StartOfDay(svc.today))
        monthly_total == UsageSince(svc.ledger, user_id, StartOfMonth(svc.today))
    IN  svc' = [svc EXCEPT !.call =
           [NoCall EXCEPT
              !.op = "check_budget",
              !.user_id = user_id,
              !.estimated_tokens = estimated_tokens,
              !.failed = read_fails,
              !.raised = read_fails,
              !.within_budget =
                  ~read_fails
                  /\ WithinBudget(daily_total, monthly_total, estimated_tokens),
              !.trace = << Event("check_budget", <<>>, user_id) >>]]

\* check_budget: when reading the ledger raises, the except branch answers
\* {"within_budget": True, "error": ...}
check_budget(estimated_tokens, user_id, read_fails) ==
    LET daily_total   == UsageSince(svc.ledger, user_id, StartOfDay(svc.today))
        monthly_total == UsageSince(svc.ledger, user_id, StartOfMonth(svc.today))
    IN  svc' = [svc EXCEPT !.call =
           [NoCall EXCEPT
              !.op = "check_budget",
              !.user_id = user_id,
              !.estimated_tokens = estimated_tokens,
              !.failed = read_fails,
              !.within_budget =
                  IF read_fails THEN TRUE
                  ELSE WithinBudget(daily_total, monthly_total, estimated_tokens),
              !.trace = << Event("check_budget", <<>>, user_id) >>]]

\* record_usage: insert_one; an exception of the insert is logged
record_usage(ledger, usage_record, write_fails) ==
    IF write_fails THEN ledger ELSE Append(ledger, usage_record)

\* the methods of LLMOrchestrator that call the model and then _track_usage
OrchestratorOps == {"generate_question_prompt", "analyze_response",
                    "generate_follow_up"}

\* one of those methods: the call of the model, then _track_usage
orchestrator_request(op, user_id, total_tokens, write_fails) ==
    /\ Len(svc.ledger) < MaxLedger
    /\ svc' = [svc EXCEPT
          !.ledger = record_usage(@, UsageRecord(user_id, svc.today, total_tokens),
                                  write_fails),
          !.call = [NoCall EXCEPT
                      !.op = op,
                      !.user_id = user_id,
                      !.failed = write_fails,
                      !.trace = << Event("llm_call", <<>>, op),
                                   Event("record_usage", <<>>, user_id) >>,
                      !.returned = TRUE]]

\* SentimentAnalyzer._analyze_with_llm on a text of 5 characters or more:
\* generate_structured_output, and nothing else
analyze_with_llm ==
    svc' = [svc EXCEPT !.call =
       [NoCall EXCEPT
          !.op = "_analyze_with_llm",
          !.trace = << Event("llm_call", <<>>, "generate_structured_output") >>,
          !.returned = TRUE]]

\* datetime.utcnow() passes midnight
new_day ==
    /\ svc.today < MaxDay
    /\ svc' = [svc EXCEPT !.today = @ + 1, !.call = NoCall]

CheckBudget ==
    /\ UNCHANGED <<core, surveys>>
    /\ \E e \in Estimates, u \in Users, read_fails \in BOOLEAN :
          check_budget(e, u, read_fails)

OrchestratorRequest ==
    /\ UNCHANGED <<core, surveys>>
    /\ \E op \in OrchestratorOps, u \in Users, n \in TokenAmounts,
          write_fails \in BOOLEAN :
          orchestrator_request(op, u, n, write_fails)

AnalyzerRequest ==
    /\ UNCHANGED <<core, surveys>>
    /\ analyze_with_llm

NewDay ==
    /\ UNCHANGED <<core, surveys>>
    /\ new_day

(***************************************************************************)
(* Requests that keep to the guard: each calls check_budget with its       *)
(* estimate and, if it is within budget, calls the model and records       *)
(* exactly the estimate through record_usage.  The two calls are separate  *)
(* awaits, so requests of one user can overlap between them.               *)
(***************************************************************************)
MaxInFlight == 2
MaxUsage == 13

\* the user and the estimate of the guarded requests
GuardedUser == "u1"
GuardedEstimate == PerRequestLimit

\* check_budget of a guarded request; the request is then in flight
begin_guarded_request(user_id, estimated_tokens) ==
    /\ Len(svc.requests) < MaxInFlight
    /\ LET daily_total   == UsageSince(svc.ledger, user_id, StartOfDay(svc.today))
           monthly_total == UsageSince(svc.ledger, user_id, StartOfMonth(svc.today))
           within_budget == WithinBudget(daily_total, monthly_total, estimated_tokens)
       IN  svc' = [svc EXCEPT
              !.requests = Append(@, [user_id |-> user_id,
                                      estimated_tokens |-> estimated_tokens,
                                      within_budget |-> within_budget]),
              !.call = [NoCall EXCEPT
                          !.op = "check_budget",
                          !.user_id = user_id,
                          !.estimated_tokens = estimated_tokens,
                          !.within_budget = within_budget,
                          !.trace = << Event("check_budget", <<>>, user_id) >>]]

\* svc.requests without its i-th element
WithoutRequest(i) ==
    SubSeq(svc.requests, 1, i - 1) \o SubSeq(svc.requests, i + 1, Len(svc.requests))

\* the rest of a guarded request: the call of the model and record_usage
\* when it was within budget, nothing when it was denied
finish_guarded_request(i) ==
    /\ i \in 1..Len(svc.requests)
    /\ LET request == svc.requests[i]
       IN  IF request.within_budget
           THEN /\ Len(svc.ledger) < MaxUsage
                /\ svc' = [svc EXCEPT
                      !.requests = WithoutRequest(i),
                      !.ledger = record_usage(@,
                                    UsageRecord(request.user_id, svc.today,
                                                request.estimated_tokens), FALSE),
                      !.call = [NoCall EXCEPT
                                  !.op = "record_usage",
                                  !.user_id = request.user_id,
                                  !.estimated_tokens = request.estimated_tokens,
                                  !.within_budget = TRUE,
                                  !.trace = << Event("llm_call", <<>>, "request"),
                                               Event("record_usage", <<>>,
                                                     request.user_id) >>,
                                  !.returned = TRUE]]
           ELSE svc' = [svc EXCEPT !.requests = WithoutRequest(i),
                                   !.call = NoCall]

BeginGuardedRequest ==
    /\ UNCHANGED <<core, surveys>>
    /\ begin_guarded_request(GuardedUser, GuardedEstimate)

FinishGuardedRequest ==
    /\ UNCHANGED <<core, surveys>>
    /\ \E i \in 1..MaxInFlight : finish_guarded_request(i)

(***************************************************************************)
(* process_survey_answer by itself, on questions of every numeric and      *)
(* choice type and on texts of every shape.                                *)
(***************************************************************************)
OptBTwo == <<"B", "2">>

\* a question with the range fields of its type set
Ranged(question, lo, hi) ==
    IF question.question_type = "numeric"
    THEN [question EXCEPT !.min_value = Some(lo), !.max_value = Some(hi)]
    ELSE [question EXCEPT !.scale_min = Some(lo), !.scale_max = Some(hi)]

InterpreterQuestions ==
    {Question("q1", t, <<>>) : t \in {"rating", "scale", "numeric"}}
       \cup {Ranged(Question("q1", t, <<>>), 2, 4) : t \in {"rating", "scale", "numeric"}}
       \cup {Question("q1", "multiple_choice", <<OptGood, OptBad>>),
             Question("q1", "multiple_choice", <<OptBTwo, OptGood>>)}

InterpreterTexts ==
    { <<"8">>, <<"1", "1">>, <<"o", "k", " ", "8">>, <<"4">>,
      <<"o", "k", " ", "4">>, <<" ", "4">>, <<"-", "3">>, <<"4", ".", "5">>,
      <<"1">>, <<"2">>, <<"3">>, <<"0">>, <<>>, <<"x">>, OptBad,
      <<"b", "a", "d", " ", "s", "e", "r", "v", "i", "c", "e">> }

\* one call of process_survey_answer
interpret(question, response_text) ==
    svc' = [svc EXCEPT !.call =
       [NoCall EXCEPT
          !.op = "process_survey_answer",
          !.question = question,
          !.text = response_text,
          !.answer = process_survey_answer(question, response_text)]]

Interpret ==
    /\ UNCHANGED <<core, surveys>>
    /\ \E question \in InterpreterQuestions, response_text \in InterpreterTexts :
          interpret(question, response_text)

(***************************************************************************)
(* The same webhook when an operation on "survey_results" raises.  Every   *)
(* handler it calls catches Exception: handle_survey_response returns      *)
(* False, handle_knowledge_base_query sends its apology and returns False, *)
(* store_message_in_survey_context logs; the webhook then returns its      *)
(* success response.                                                       *)
(***************************************************************************)
\* the operations of handle_survey_response on the session that can raise
FailedOps == {"read", "write"}

\* what the respondent was sent before the operation raised
FailedTrace(d, phone_number, failed_op) ==
    IF failed_op = "read" THEN << >>
    ELSE IF d.branch = "next"
    THEN << QuestionMessage(phone_number, d.question, d.index) >>
    ELSE << Event("outro", phone_number, results[d.session].survey_id) >>

\* outage: the database keeps raising for the rest of the invocation
nexmo_inbound_webhook_db_failure(from_number, text_content, failed_op, outage) ==
    /\ workers = [w \in {} |-> 0]
    /\ \E d \in {Decide(results, calls, now, from_number, text_content)} :
       \E outcome \in (IF outage THEN {"exception"}
                       ELSE IF KbReplies(calls, now, from_number)
                       THEN KbOutcomes ELSE {"fallback"}) :
       LET replies == outage \/ KbReplies(calls, now, from_number)
           stored  == ~outage
                      /\ ~handle_knowledge_base_query(calls, now, from_number, outcome)
       IN
        /\ IF failed_op = "read"
           THEN d.branch # "looks_like_question"
           ELSE d.branch \in {"next", "complete"}
        /\ stored =>
              \A r \in ContextSurveys(results, from_number) : results[r].notes < MaxNotes
        /\ results' =
              IF stored THEN store_message_in_survey_context(results, from_number)
              ELSE results
        /\ last' = [op |-> "nexmo_inbound", phone |-> from_number,
                    text |-> text_content,
                    route |-> IF replies THEN "KnowledgeQuery" ELSE "Unclassified",
                    branch |-> IF failed_op = "read" THEN "read_failed"
                               ELSE "write_failed",
                    session |-> d.session,
                    trace |->
                       FailedTrace(d, from_number, failed_op)
                       \o (IF replies THEN << KbReply(from_number, outcome) >>
                           ELSE << >>)
                       \o (IF stored /\ ContextSurveys(results, from_number) # {}
                           THEN << Event("store_context", <<>>, "") >>
                           ELSE << >>),
                    reply |-> "success"]
    /\ UNCHANGED <<calls, jobs, hist, workers, now, ticks>>

InboundDbFailure ==
    /\ UNCHANGED <<surveys, svc>>
    /\ Counted
    /\ \E p \in Phones, t \in Texts, op \in FailedOps, outage \in BOOLEAN :
          nexmo_inbound_webhook_db_failure(p, t, op, outage)

(***************************************************************************)
(* The same webhook when invocations overlap: handle_survey_response       *)
(* awaits its reads, then the send of its message, then its update_one, so *)
(* another invocation can run between the reads and the write.             *)
(***************************************************************************)
\* whether the session a decision was made on has been written since
Stale(seen, current) ==
    \/ seen.current_question_index # current.current_question_index
    \/ seen.responses # current.responses
    \/ seen.completed # current.completed

\* the reads of handle_survey_response, up to process_survey_answer
begin_survey_response(w, from_number, text_content) ==
    /\ w \notin DOMAIN workers
    /\ \A o \in 1..MaxWorkers : o < w => o \in DOMAIN workers
    /\ \E d \in {Decide(results, calls, now, from_number, text_content)} :
          /\ d.handled
          /\ workers' = (w :> [phone |-> from_number, text |-> text_content,
                               d |-> d, seen |-> results[d.session]]) @@ workers
    /\ last' = NoLast
    /\ UNCHANGED <<results, calls, jobs, now, ticks, hist>>

\* the message and the writes of send_next_question or complete_survey, or
\* the help text, with the values read by begin_survey_response
finish_survey_response(w) ==
    /\ w \in DOMAIN workers
    /\ "d" \in DOMAIN workers[w]
    /\ LET d     == workers[w].d
           stale == IF Stale(workers[w].seen, results[d.session]) THEN 1 ELSE 0
       IN  /\ d.branch = "complete" => Len(jobs) < MaxJobs
           /\ results' = survey_response_update(results, d, now)
           /\ calls' =
                 IF d.branch = "complete"
                 THEN complete_survey_call_update(calls, results[d.session].call_id)
                 ELSE calls
           /\ jobs' =
                 IF d.branch = "complete"
                 THEN SpawnJob(jobs, d.session, d.responses)
                 ELSE jobs
           /\ hist' =
                 IF d.branch = "next"
                 THEN [Acked(hist, d.session) EXCEPT
                          ![d.session].stale_writes = @ + stale]
                 ELSE IF d.branch = "complete"
                 THEN [Completed(hist, d.session) EXCEPT
                          ![d.session].stale_writes = @ + stale]
                 ELSE hist
           /\ last' = [op |-> "nexmo_inbound", phone |-> workers[w].phone,
                       text |-> workers[w].text,
                       route |-> "SurveyAnswer", branch |-> d.branch,
                       session |-> d.session,
                       trace |-> SurveyTrace(d, workers[w].phone),
                       reply |-> "success"]
    /\ workers' = [o \in DOMAIN workers \ {w} |-> workers[o]]
    /\ UNCHANGED <<now, ticks>>

BeginInbound ==
    /\ UNCHANGED <<surveys, svc>>
    /\ Counted
    /\ \E w \in 1..MaxWorkers, p \in Phones, t \in Texts :
          begin_survey_response(w, p, t)

\* the rest of an invocation that BeginInbound has counted
FinishInbound ==
    /\ UNCHANGED <<surveys, svc>>
    /\ \E w \in 1..MaxWorkers : finish_survey_response(w)
    /\ UNCHANGED steps

\* the find_one of the call in twilio_gather_webhook: an invocation that
\* has read its call document and awaits its next read or write
begin_gather(w, call_id, response_value) ==
    /\ w \notin DOMAIN workers
    /\ \A o \in 1..MaxWorkers : o < w => o \in DOMAIN workers
    /\ call_id \in DOMAIN calls
    /\ calls[call_id].twilio_call_sid
    /\ workers' = (w :> [call_id |-> call_id, value |-> response_value,
                         call |-> calls[call_id]]) @@ workers
    /\ last' = NoLast
    /\ UNCHANGED <<results, calls, jobs, now, ticks, hist>>

\* the rest of that invocation, with the call document as it was read
finish_gather(w) ==
    /\ w \in DOMAIN workers
    /\ "call" \in DOMAIN workers[w]
    /\ gather_writes(workers[w].call_id, workers[w].call, workers[w].value)
    /\ workers' = [o \in DOMAIN workers \ {w} |-> workers[o]]

BeginGather ==
    /\ UNCHANGED <<surveys, svc>>
    /\ Counted
    /\ \E w \in 1..MaxWorkers, c \in 1..MaxCalls, v \in VoiceInputs :
          begin_gather(w, c, v)

\* the rest of an invocation that BeginGather has counted
FinishGather ==
    /\ UNCHANGED <<surveys, svc>>
    /\ \E w \in 1..MaxWorkers : finish_gather(w)
    /\ UNCHANGED steps

Next ==
    \/ Inbound
    \/ SentimentJob
    \/ CreateCall
    \/ SendSurvey
    \/ CreateKnowledgeInquiry
    \/ UpdateCall
    \/ VoiceCall
    \/ Gather
    \/ Clock

\* one handler at a time
Spec == Init /\ [][Next]_vars

(***************************************************************************)
(* Properties.                                                             *)
(***************************************************************************)
\* the step is one serial invocation of the inbound WhatsApp webhook
InboundStep == steps' = steps + 1 /\ last'.op = "nexmo_inbound"

\* the state was left by an invocation of the inbound WhatsApp webhook
AfterInbound == last.op = "nexmo_inbound"

\* the invocation was applied to session r as a survey answer
AppliedTo(l, r) == l.op = "nexmo_inbound" /\ l.route = "SurveyAnswer" /\ l.session = r

QuestionCount(r) == Len(SurveyQuestions(results[r].survey_id))

\* the interpreter's verdict on a text for the question session r is at
InterpretedFor(r, text) ==
    process_survey_answer(
        SurveyQuestions(results[r].survey_id)[results[r].current_question_index + 1],
        Strip(text))

Accepts(r, text) ==
    /\ results[r].current_question_index < QuestionCount(r)
    /\ InterpretedFor(r, text) # NoneAnswer

Rejects(r, text) ==
    /\ results[r].current_question_index < QuestionCount(r)
    /\ InterpretedFor(r, text) = NoneAnswer

\* the messages of a trace that go to the respondent
Replies(trace) == SelectSeq(trace, LAMBDA m : m.to # <<>>)

\* C1, as stated: every accepted answer raises current_question_index by
\* exactly 1, and the session is completed exactly when the index has
\* reached the number of questions.
C1_IndexReachesCount ==
    [][\A r \in DOMAIN results :
          (InboundStep /\ AppliedTo(last', r) /\ Accepts(r, last'.text)) =>
              /\ results'[r].current_question_index =
                     results[r].current_question_index + 1
              /\ results'[r].completed <=>
                     (results'[r].current_question_index = QuestionCount(r))]_vars

\* C1, amended: an accepted answer to a question that is not the last one
\* raises current_question_index by exactly 1 and leaves the session
\* active; the accepted answer to the last question (index N-1) sets
\* completed and leaves the index at N-1.  Every accepted answer is stored
\* under the id of the question it answers.
C1_Progression ==
    [][\A r \in DOMAIN results :
          (InboundStep /\ AppliedTo(last', r) /\ Accepts(r, last'.text)) =>
              LET i == results[r].current_question_index
                  q == SurveyQuestions(results[r].survey_id)[i + 1]
              IN  /\ ~results[r].completed
                  /\ results'[r].responses =
                         DictSet(results[r].responses, q.id,
                                 InterpretedFor(r, last'.text))
                  /\ IF i + 1 < QuestionCount(r)
                     THEN /\ results'[r].current_question_index = i + 1
                          /\ ~results'[r].completed
                     ELSE /\ results'[r].current_question_index = i
                          /\ results'[r].completed]_vars

\* a session whose three questions were answered one after the other: it is
\* completed and its index is still that of the last question
C1_Witness ==
    \E r \in DOMAIN results :
        /\ AppliedTo(last, r)
        /\ hist[r].acks = QuestionCount(r)
        /\ results[r].completed
        /\ results[r].current_question_index = QuestionCount(r) - 1

\* C2: a text the interpreter rejects for the current question of the
\* session it is applied to changes no collection (index, responses and
\* completed flag included) and starts no job; the only effect is the help
\* text of that question, sent to the sender.  As it holds of every such
\* step, it holds of any number of them in a row.
C2_InvalidLeavesState ==
    [][\A r \in DOMAIN results :
          (InboundStep /\ AppliedTo(last', r) /\ Rejects(r, last'.text)) =>
              /\ results' = results
              /\ calls' = calls
              /\ jobs' = jobs
              /\ last'.trace =
                    << HelpMessage(last'.phone,
                          SurveyQuestions(results[r].survey_id)
                              [results[r].current_question_index + 1]) >>]_vars

\* a rejected text on the second question of a session
C2_Witness ==
    \E r \in DOMAIN results :
        /\ AppliedTo(last, r)
        /\ Rejects(r, last.text)
        /\ last.branch = "invalid"
        /\ results[r].current_question_index = 1
        /\ ~results[r].completed

\* the sentiment jobs spawned for session r
JobsOf(r) == {j \in DOMAIN jobs : jobs[j].survey_result_id = r}

\* C3: a session never has more than one completion by answers nor more
\* than one sentiment job, whatever is received after it; once as many
\* answers as the survey has questions were accepted it has exactly one of
\* each.
C3_OneCompletionOneJob ==
    \A r \in DOMAIN results :
        /\ hist[r].completions <= 1
        /\ hist[r].jobs <= 1
        /\ Cardinality(JobsOf(r)) = hist[r].jobs
        /\ hist[r].acks >= QuestionCount(r) =>
              /\ hist[r].completions = 1
              /\ hist[r].jobs = 1
              /\ results[r].completed

\* a further message of the same contact after its three answers
C3_Witness ==
    \E r \in DOMAIN results :
        /\ QuestionCount(r) = 3
        /\ hist[r].acks = 3
        /\ hist[r].completions = 1
        /\ Cardinality(JobsOf(r)) = 1
        /\ AfterInbound
        /\ last.phone = results[r].contact_phone_number
        /\ last.branch \notin {"next", "complete"}

\* C4: under overlapping invocations a session whose writes were all based
\* on a current read has as many acknowledged answers as its stored index
\* and completion say, at most one completion and at most one job; only a
\* write based on a stale read (another invocation wrote the session
\* between the read and the write) can break this - and it does, see the
\* state C4_LostUpdate.
C4_ConsistentUnlessOverlapped ==
    \A r \in DOMAIN results :
        hist[r].stale_writes = 0 =>
            /\ hist[r].acks = results[r].current_question_index + hist[r].completions
            /\ hist[r].completions <= 1
            /\ Cardinality(JobsOf(r)) <= 1

\* two answers were acknowledged to the respondent (each got the next
\* question), the session stores one response and the index 1
C4_LostUpdate ==
    \E r \in DOMAIN results :
        /\ hist[r].acks = 2
        /\ hist[r].stale_writes = 1
        /\ results[r].current_question_index = 1
        /\ Cardinality(DOMAIN results[r].responses) = 1
        /\ ~results[r].completed

\* C5, as stated: no contact has two sessions with completed = false.
C5_AtMostOneActive ==
    \A p \in Phones :
        Cardinality({r \in DOMAIN results :
                        /\ results[r].contact_phone_number = p
                        /\ ~results[r].completed}) <= 1

\* the position of the first event of a kind in a trace (0 if none)
FirstIndex(trace, kind) ==
    LET hits == {i \in 1..Len(trace) : trace[i].kind = kind}
    IN  IF hits = {} THEN 0 ELSE CHOOSE i \in hits : \A j \in hits : i <= j

\* C6: the invocation that completes a session sends the outro before it
\* spawns the sentiment job, returns its success reply with the job spawned
\* and not yet run, and that reply stands whatever the job does later.
C6_OutroThenDetachedJob ==
    /\ [](AfterInbound /\ last.branch = "complete" =>
             /\ FirstIndex(last.trace, "outro") > 0
             /\ FirstIndex(last.trace, "outro") <
                    FirstIndex(last.trace, "spawn_sentiment_job")
             /\ last.trace[FirstIndex(last.trace, "outro")].to = last.phone
             /\ last.reply = "success")
    /\ [][(InboundStep /\ last'.branch = "complete") =>
             /\ Len(jobs') = Len(jobs) + 1
             /\ jobs'[Len(jobs')].survey_result_id = last'.session
             /\ ~jobs'[Len(jobs')].done]_vars

\* the completing invocation has replied success and its job has since
\* hit the timeout
C6_Witness ==
    /\ AfterInbound
    /\ last.branch = "complete"
    /\ last.reply = "success"
    /\ \E j \in JobsOf(last.session) : jobs[j].done /\ jobs[j].timed_out

C8_AllThrowMarkedFailed ==
    \A j \in DOMAIN jobs :
        (jobs[j].done /\ jobs[j].threw) =>
            /\ results[jobs[j].survey_result_id].overall_sentiment = Some(Num(0, 1))
            /\ results[jobs[j].survey_result_id].sentiment_analysis_failed
            /\ ~results[jobs[j].survey_result_id].sentiment_analysis_pending

\* the answers, the responses and the completed flag of every session are
\* what they were
NoSessionAnswered ==
    \A r \in DOMAIN results :
        /\ results'[r].current_question_index = results[r].current_question_index
        /\ results'[r].responses = results[r].responses
        /\ results'[r].completed = results[r].completed

\* C9: a text containing "?" from a number that has a knowledge-base-only
\* call of the last 30 minutes is routed to the knowledge base and answers
\* no session; from a number without such a call and with an active
\* session it is a survey answer, interpreted against the current question
\* of the most recent active session.
C9_Disambiguation ==
    [][(InboundStep /\ Contains(last'.text, <<"?">>)) =>
          LET recent == KbCallsWithin(calls, now, last'.phone, RecentKbWindow)
              active == ActiveSurveys(results, last'.phone)
          IN  /\ recent # {} =>
                    /\ last'.route = "KnowledgeQuery"
                    /\ NoSessionAnswered
              /\ (recent = {} /\ active # {}) =>
                    LET r == MostRecent(results, active)
                        i == results[r].current_question_index
                    IN  /\ AppliedTo(last', r)
                        /\ Rejects(r, last'.text) => last'.branch = "invalid"
                        /\ Accepts(r, last'.text) =>
                              /\ last'.branch \in {"next", "complete"}
                              /\ results'[r].responses
                                     [SurveyQuestions(results[r].survey_id)[i + 1].id]
                                   = InterpretedFor(r, last'.text)]_vars

\* a "?" text routed to the knowledge base although its sender has an
\* active session
C9_Witness ==
    /\ AfterInbound
    /\ Contains(last.text, <<"?">>)
    /\ last.route = "KnowledgeQuery"
    /\ KbCallsWithin(calls, now, last.phone, RecentKbWindow) # {}
    /\ \E r \in ActiveSurveys(results, last.phone) : Accepts(r, last.text)

\* step 1 of the disambiguation does not fire and the sender has no active
\* session
NoRuleNoSession ==
    /\ InboundStep
    /\ ~(/\ KbCallsWithin(calls, now, last'.phone, RecentKbWindow) # {}
          /\ looks_like_question(last'.text))
    /\ ActiveSurveys(results, last'.phone) = {}

\* nothing but the stored context messages of the sessions differs
OnlyStored ==
    /\ calls' = calls
    /\ jobs' = jobs
    /\ DOMAIN results' = DOMAIN results
    /\ \A r \in DOMAIN results : [results'[r] EXCEPT !.notes = 0] =
                                  [results[r] EXCEPT !.notes = 0]

\* C10, as stated: when step 1 does not fire and the sender has no active
\* session the message is Unclassified, only stored, and nothing is sent.
C10_UnclassifiedNoReply ==
    [][NoRuleNoSession =>
          /\ last'.route = "Unclassified"
          /\ Replies(last'.trace) = << >>
          /\ OnlyStored]_vars

\* C10, amended: when step 1 does not fire and the sender has no active
\* session, the message is Unclassified - nothing sent, the text stored on
\* the most recent session of the number if it has one - only if the number
\* has no knowledge-base-only call of the last 24 hours; if it has one the
\* message is a KnowledgeQuery and exactly one knowledge-base reply is sent.
C10_UnclassifiedUnlessKbCall ==
    [][NoRuleNoSession =>
          /\ OnlyStored
          /\ IF \E c \in DOMAIN calls :
                   /\ RegexMatch(calls[c].phone_number, Normalize(last'.phone))
                   /\ calls[c].knowledge_base_only
                   /\ calls[c].call_type = "knowledge_base_inquiry"
                   /\ now - calls[c].created_at <= KbLookback
             THEN /\ last'.route = "KnowledgeQuery"
                  /\ Len(Replies(last'.trace)) = 1
                  /\ Replies(last'.trace)[1].kind \in
                        {"kb_fallback", "kb_answer", "kb_error",
                         "kb_technical_difficulties"}
                  /\ Replies(last'.trace)[1].to = last'.phone
             ELSE /\ last'.route = "Unclassified"
                  /\ Replies(last'.trace) = << >>
                  /\ LET found == {r \in DOMAIN results :
                                     RegexMatch(results[r].contact_phone_number,
                                                Normalize(last'.phone))}
                     IN  \A r \in DOMAIN results :
                            results'[r].notes = results[r].notes +
                               (IF found # {} /\ r = MostRecent(results, found)
                                THEN 1 ELSE 0)]_vars

\* an Unclassified message stored on the completed session of its sender
C10_Witness ==
    /\ AfterInbound
    /\ last.route = "Unclassified"
    /\ last.trace = << Event("store_context", << >>, "") >>
    /\ ActiveSurveys(results, last.phone) = {}
    /\ \E r \in DOMAIN results :
          /\ results[r].contact_phone_number = last.phone
          /\ results[r].notes = 1

\* the message of the step came in while its sender had an active session
\* and the question-likeness rule did not fire
ActiveNoRule ==
    /\ InboundStep
    /\ ActiveSurveys(results, last'.phone) # {}
    /\ last'.branch # "looks_like_question"

\* the age of the most recent active session of the sender of the step
ActiveAge == now - results[MostRecent(results, ActiveSurveys(results, last'.phone))].start_time

\* the step handled its message as an answer to the current question of the
\* most recent active session of the sender
BoundToCurrent ==
    LET r == MostRecent(results, ActiveSurveys(results, last'.phone))
        q == SurveyQuestions(results[r].survey_id)[results[r].current_question_index + 1]
        a == InterpretedFor(r, last'.text)
    IN  /\ last'.route = "SurveyAnswer"
        /\ last'.session = r
        /\ IF a = NoneAnswer
           THEN /\ last'.trace = << HelpMessage(last'.phone, q) >>
                /\ results' = results
           ELSE /\ q.id \in DOMAIN results'[r].responses
                /\ results'[r].responses[q.id] = a

\* C11 as stated: with an active session (and the question-likeness rule
\* not fired) the message is a KnowledgeQuery exactly when the session is
\* older than 2 hours and some knowledge-base call exists for the contact,
\* whatever its age; every other message is a SurveyAnswer bound to the
\* session's current question.
C11_StaleOverrideAnyKbCall ==
    [][ActiveNoRule =>
          LET override == /\ ActiveAge > StaleSurveyAge
                          /\ KbCallsWithin(calls, now, last'.phone, now) # {}
          IN  /\ (last'.route = "KnowledgeQuery") <=> override
              /\ ~override => BoundToCurrent]_vars

\* C11, amended: the override needs a knowledge-base call created within
\* the last 30 minutes; with an older one, or none, the message is a
\* SurveyAnswer bound to the session's current question.
C11_StaleOverrideRecentKbCall ==
    [][ActiveNoRule =>
          LET override == /\ ActiveAge > StaleSurveyAge
                          /\ KbCallsWithin(calls, now, last'.phone, RecentKbWindow) # {}
          IN  /\ (last'.route = "KnowledgeQuery") <=> override
              /\ override => last'.branch = "stale_survey"
              /\ ~override => BoundToCurrent]_vars

\* a message that is not question-like, from a contact whose active session
\* is older than 2 hours and who has a fresh knowledge-base call, was
\* answered from the knowledge base; the session is still active
C11_Witness ==
    /\ AfterInbound
    /\ last.branch = "stale_survey"
    /\ last.route = "KnowledgeQuery"
    /\ last.text \notin QuestionLike
    /\ last.session \in ActiveSurveys(results, last.phone)
    /\ now - results[last.session].start_time > StaleSurveyAge

\* the step inserted the call of a knowledge inquiry
KbInquiryCreated ==
    /\ Len(calls') = Len(calls) + 1
    /\ calls'[Len(calls')].survey_id = ""

\* the sessions of the contact of the new call that are active before the step
ActiveOfNewContact ==
    {r \in DOMAIN results :
        /\ results[r].contact_phone_number = calls'[Len(calls')].phone_number
        /\ ~results[r].completed}

\* after the step session r is closed as auto-completed and has no job
AutoCompletedAfter(r) ==
    /\ results'[r].completed
    /\ results'[r].auto_completed
    /\ \A j \in 1..Len(jobs') : jobs'[j].survey_result_id # r

\* an auto-completed session stays closed, gets no job, and no inbound
\* message is applied to it
AutoCompletedIsFinal ==
    \A r \in DOMAIN results :
        results[r].auto_completed =>
            /\ AutoCompletedAfter(r)
            /\ InboundStep =>
                  /\ ~AppliedTo(last', r)
                  /\ results'[r].current_question_index =
                        results[r].current_question_index
                  /\ results'[r].responses = results[r].responses

InboundFailedStep ==
    /\ steps' = steps + 1
    /\ last'.op = "nexmo_inbound"
    /\ last'.branch \in {"read_failed", "write_failed"}

\* C13: an invocation in which a session read or write fails returns an
\* error response, and the respondent is sent neither the next question nor
\* the outro of the transition that was not persisted.
C13_FailureSurfaced ==
    [][InboundFailedStep =>
          /\ last'.reply = "error"
          /\ \A i \in 1..Len(last'.trace) :
                last'.trace[i].kind \notin {"question", "outro"}]_vars

\* C14: the hits of every result of retrieve_optimized_context count at
\* most max_tokens tokens together, also when a hit was compressed and when
\* the packing raised.
C14_WithinMaxTokens ==
    svc.call.op = "retrieve_optimized_context" =>
        TokensOf(svc.call.documents) <= svc.call.max_tokens

\* C19: when the retrieval of handle_knowledge_base_query yields empty
\* content the handler sends the fallback message and nothing else, does not
\* call the language model for an answer, and raises nothing.
C19_EmptyContentFallback ==
    (svc.call.op = "handle_knowledge_base_query" /\ svc.call.documents = <<>>) =>
        /\ Len(Replies(svc.call.trace)) = 1
        /\ Replies(svc.call.trace)[1].kind = "kb_fallback"
        /\ \A i \in 1..Len(svc.call.trace) :
              ~(svc.call.trace[i].kind = "llm_call"
                /\ svc.call.trace[i].about = "generate")
        /\ ~svc.call.raised
        /\ svc.call.returned

\* a retrieval that raised was answered with the fallback message
C19_Witness ==
    /\ svc.call.op = "handle_knowledge_base_query"
    /\ svc.call.retrieval = "error"
    /\ svc.call.documents = <<>>
    /\ Len(svc.call.trace) = 1
    /\ svc.call.trace[1].kind = "kb_fallback"

\* the question session r is at
CurrentQuestion(r) ==
    SurveyQuestions(results[r].survey_id)[results[r].current_question_index + 1]

\* the step is an invocation that accepted a text as the answer of session r
AnsweredStep(r) ==
    /\ InboundStep
    /\ AppliedTo(last', r)
    /\ last'.branch \in {"next", "complete"}

\* C15: when the question a session is at declares follow_up_logic and the
\* condition of the accepted answer ("1-2" for 1 or 2, "4-5" for 4 or 5) is
\* one of its keys, the session moves to the question the key maps to; for
\* any other condition ("3") it moves to index + 1.
C15_FollowUpRouting ==
    [][\A r \in DOMAIN results :
          AnsweredStep(r) =>
             LET question  == CurrentQuestion(r)
                 condition == BranchCondition(question, last'.text)
                 questions == SurveyQuestions(results[r].survey_id)
                 next      == results'[r].current_question_index
             IN  IF condition \in DOMAIN question.follow_up_logic
                 THEN /\ next < Len(questions)
                      /\ questions[next + 1].id = question.follow_up_logic[condition]
                 ELSE next = results[r].current_question_index + 1]_vars

\* C20: the question every active session is at exists in its survey.
C20_CurrentQuestionExists ==
    \A r \in DOMAIN results :
        ~results[r].completed =>
            /\ results[r].survey_id \in DOMAIN surveys
            /\ results[r].current_question_index
                  < Len(SurveyQuestions(results[r].survey_id))

\* the calls of the language model in a trace
LlmCalls(trace) == SelectSeq(trace, LAMBDA m : m.kind = "llm_call")

\* C16: in every invocation, each call of the language model comes after a
\* check of the Token Budget Guard made in that invocation.
C16_BudgetCheckedBeforeLlm ==
    \A i \in 1..Len(svc.call.trace) :
        svc.call.trace[i].kind = "llm_call" =>
            \E j \in 1..(i - 1) : svc.call.trace[j].kind = "check_budget"

\* the ledger records of a user on the current day, and in the current month
RecordsOfDay(user_id) ==
    {i \in 1..Len(svc.ledger) :
        svc.ledger[i].user_id = user_id /\ svc.ledger[i].timestamp = svc.today}

RecordsOfMonth(user_id) ==
    {i \in 1..Len(svc.ledger) :
        /\ svc.ledger[i].user_id = user_id
        /\ svc.ledger[i].timestamp \div DaysPerMonth = svc.today \div DaysPerMonth}

TotalTokens(S) == SumOver([i \in 1..Len(svc.ledger) |-> svc.ledger[i].total_tokens], S)

\* the three limits hold for the check_budget call just made
LimitsHold ==
    LET estimate == svc.call.estimated_tokens
    IN  /\ TotalTokens(RecordsOfDay(svc.call.user_id)) + estimate <= DailyLimit
        /\ TotalTokens(RecordsOfMonth(svc.call.user_id)) + estimate <= MonthlyLimit
        /\ estimate <= PerRequestLimit

\* C17, as stated: check_budget reports allowed exactly when the user's
\* usage of the day plus the estimate is within daily_limit, the usage of
\* the month plus the estimate is within monthly_limit, and the estimate is
\* within per_request_limit.
C17_AllowedExactlyWithinLimits ==
    svc.call.op = "check_budget" => (svc.call.within_budget <=> LimitsHold)

\* C17, amended: the same, for the calls of check_budget whose reading of
\* the ledger does not raise; when it raises, check_budget reports allowed.
C17_AllowedExactlyWhenRead ==
    svc.call.op = "check_budget" =>
        IF svc.call.failed
        THEN svc.call.within_budget
        ELSE svc.call.within_budget <=> LimitsHold

\* a check that is denied by the monthly limit alone
C17_Witness ==
    /\ svc.call.op = "check_budget"
    /\ ~svc.call.failed
    /\ ~svc.call.within_budget
    /\ svc.call.estimated_tokens <= PerRequestLimit
    /\ TotalTokens(RecordsOfDay(svc.call.user_id)) + svc.call.estimated_tokens
          <= DailyLimit
    /\ TotalTokens(RecordsOfMonth(svc.call.user_id)) + svc.call.estimated_tokens
          > MonthlyLimit

\* C18: every request that calls the language model appends exactly one
\* record for its user to the ledger, and the records already in the ledger
\* stay as they are.
C18_OneRecordPerLlmRequest ==
    [][/\ Len(svc'.ledger) = Len(svc.ledger) + Len(LlmCalls(svc'.call.trace))
       /\ SubSeq(svc'.ledger, 1, Len(svc.ledger)) = svc.ledger
       /\ \A i \in (Len(svc.ledger) + 1)..Len(svc'.ledger) :
             svc'.ledger[i].user_id = svc'.call.user_id]_vars

\* the step moved voice call c from the question at its index to the next
VoiceAdvanced(c) ==
    /\ calls[c].twilio_call_sid
    /\ calls[c].survey_started
    /\ calls'[c].current_question_index = calls[c].current_question_index + 1

\* C21: a gather advances a voice call past a question only with an input
\* that is valid for that question; an invalid or empty input stores no
\* response and leaves current_question_index where it was.
C21_InvalidGatherKeepsQuestion ==
    [][\A c \in DOMAIN calls :
          VoiceAdvanced(c) =>
             LET question == SurveyQuestions(calls[c].survey_id)
                                [calls[c].current_question_index + 1]
             IN  \A r \in VoiceResult(results', c, calls[c].survey_id) :
                    /\ question.id \in DOMAIN results'[r].responses
                    /\ process_survey_answer(
                          question,
                          Strip(results'[r].responses[question.id].raw_response))
                          # NoneAnswer]_vars

\* the step in which sentiment job j ran, from its tasks to its update
JobRan(j) == ~jobs[j].done /\ jobs'[j].done

\* the tasks of a job that returned a score
Scored(job) == {q \in DOMAIN job.task_results : job.task_results[q].success}

\* the arithmetic mean of the scores of the tasks that returned one
MeanOfScored(job) ==
    IF Scored(job) = {} THEN Num(0, 1)
    ELSE Fraction(SumOver([q \in Scored(job) |-> job.task_results[q].score],
                          Scored(job)),
                  Cardinality(Scored(job)))

\* C22: the overall_sentiment a job persists is the arithmetic mean of the
\* scores of its successfully scored answers; a failed answer adds nothing
\* to the sum and nothing to the count.
C22_MeanOfScoredOnly ==
    [][\A j \in DOMAIN jobs :
          JobRan(j) =>
             results'[jobs[j].survey_result_id].overall_sentiment
                = Some(MeanOfScored(jobs'[j]))]_vars

\* C23: a job whose global timeout fired persists overall_sentiment 0.0,
\* sentiment_analysis_failed true and the pending flag cleared.
C23_TimeoutMarkedFailed ==
    [][\A j \in DOMAIN jobs :
          (JobRan(j) /\ jobs'[j].timed_out) =>
             /\ results'[jobs[j].survey_result_id].overall_sentiment = Some(Num(0, 1))
             /\ results'[jobs[j].survey_result_id].sentiment_analysis_failed
             /\ ~results'[jobs[j].survey_result_id].sentiment_analysis_pending]_vars

\* C24: a job without timeout persists the score of every answer whose
\* task returned one, whatever happened to the other tasks.
C24_FailureIsolated ==
    [][\A j \in DOMAIN jobs :
          (JobRan(j) /\ ~jobs'[j].timed_out) =>
             \A q \in Scored(jobs'[j]) :
                /\ q \in DOMAIN results'[jobs[j].survey_result_id].sentiment_scores
                /\ results'[jobs[j].survey_result_id].sentiment_scores[q]
                      = jobs'[j].task_results[q].score]_vars

\* a job has run without timeout, one of its tasks failed, another returned
\* a score, and that score is in the session
C24_Witness ==
    \E j \in DOMAIN jobs :
        /\ jobs[j].done
        /\ ~jobs[j].timed_out
        /\ \E q \in DOMAIN jobs[j].task_results : ~jobs[j].task_results[q].success
        /\ \E q \in Scored(jobs[j]) :
              /\ q \in DOMAIN results[jobs[j].survey_result_id].sentiment_scores
              /\ results[jobs[j].survey_result_id].sentiment_scores[q]
                    = jobs[j].task_results[q].score

\* the call just made is process_survey_answer on a question of these types
InterpreterCall(types) ==
    /\ svc.call.op = "process_survey_answer"
    /\ svc.call.question.question_type \in types

\* the range of a rating or scale question, with the defaults of its type
ScaleMin == Get(svc.call.question.scale_min, 1)
ScaleMax ==
    Get(svc.call.question.scale_max,
        IF svc.call.question.question_type = "rating" THEN 10 ELSE 5)

InScale(v) == NumLE(Num(ScaleMin, 1), v) /\ NumLE(v, Num(ScaleMax, 1))

\* the answer is the value v
IsValue(v) == svc.call.answer.kind = "value" /\ svc.call.answer.value = v

\* C25, as stated: for numeric, rating and scale questions the value is the
\* first signed decimal number found anywhere in the text, and a rating or
\* scale answer is valid exactly when that number lies in
\* [scale_min, scale_max].
C25_FirstNumberInRange ==
    LET first == FirstNumber(svc.call.text)
    IN  /\ InterpreterCall({"numeric", "rating", "scale"}) =>
              (svc.call.answer # NoneAnswer => first.ok /\ IsValue(first.v))
        /\ InterpreterCall({"rating", "scale"}) =>
              (svc.call.answer # NoneAnswer <=> first.ok /\ InScale(first.v))

\* C25, amended: numeric and rating questions take the first signed decimal
\* number found anywhere in the text, a rating being valid exactly when it
\* lies in [scale_min, scale_max]; a scale question takes the whole text,
\* stripped, as one number and is valid exactly when the text is a number in
\* [scale_min, scale_max].
C25_FirstNumberButWholeScale ==
    LET first == FirstNumber(svc.call.text)
        whole == ParseFloat(svc.call.text)
    IN  /\ InterpreterCall({"numeric", "rating"}) =>
              (svc.call.answer # NoneAnswer => first.ok /\ IsValue(first.v))
        /\ InterpreterCall({"rating"}) =>
              (svc.call.answer # NoneAnswer <=> first.ok /\ InScale(first.v))
        /\ InterpreterCall({"scale"}) =>
              /\ svc.call.answer # NoneAnswer <=> whole.ok /\ InScale(whole.v)
              /\ svc.call.answer # NoneAnswer => IsValue(whole.v)

\* a scale question given an in-range number inside other text: Invalid
C25_Witness ==
    /\ InterpreterCall({"scale"})
    /\ FirstNumber(svc.call.text).ok
    /\ InScale(FirstNumber(svc.call.text).v)
    /\ ~ParseFloat(svc.call.text).ok
    /\ svc.call.answer = NoneAnswer

\* the options of the question whose text contains the text of the call or
\* is contained in it, case-insensitively
MatchingOptions ==
    {i \in 1..Len(svc.call.question.options) :
        \/ Contains(Lower(svc.call.question.options[i]), Lower(svc.call.text))
        \/ Contains(Lower(svc.call.text), Lower(svc.call.question.options[i]))}

\* the answer is option i (1-based) of the question
IsOption(i) ==
    /\ svc.call.answer.kind = "choice"
    /\ svc.call.answer.choice_index = i - 1
    /\ svc.call.answer.choice_text = svc.call.question.options[i]

\* C26: for a multiple_choice question, a text that is an index within
\* 1..len(options) gives that option; otherwise the first option whose text
\* contains the text or is contained in it gives the answer; otherwise the
\* answer is Invalid.
C26_IndexThenFirstMatch ==
    InterpreterCall({"multiple_choice"}) =>
        LET index == ParseInt(svc.call.text)
            n     == Len(svc.call.question.options)
        IN  IF index.ok /\ index.v \in 1..n
            THEN IsOption(index.v)
            ELSE IF MatchingOptions # {}
            THEN \E i \in MatchingOptions :
                    /\ \A k \in MatchingOptions : i <= k
                    /\ IsOption(i)
            ELSE svc.call.answer = NoneAnswer

\* an index that is also part of the text of an earlier option: the index
\* rule decides
C26_Witness ==
    /\ InterpreterCall({"multiple_choice"})
    /\ ParseInt(svc.call.text).ok
    /\ ParseInt(svc.call.text).v \in 1..Len(svc.call.question.options)
    /\ \E i \in MatchingOptions : i < ParseInt(svc.call.text).v
    /\ IsOption(ParseInt(svc.call.text).v)

\* two phone numbers of one contact: the same digits
SameContact(a, b) == Normalize(a) = Normalize(b)

\* C27: an inbound message changes only sessions of the contact it comes
\* from, and a new knowledge inquiry call auto-completes only sessions of
\* the contact it is for.
C27_OnlyOwnSessions ==
    [][/\ InboundStep =>
             \A r \in DOMAIN results :
                (results'[r] # results[r] \/ last'.session = r) =>
                    SameContact(results[r].contact_phone_number, last'.phone)
       /\ KbInquiryCreated =>
             \A r \in DOMAIN results :
                (results'[r].auto_completed /\ ~results[r].auto_completed) =>
                    SameContact(results[r].contact_phone_number,
                                calls'[Len(calls')].phone_number)]_vars

\* C28: once a session is completed, no step changes its responses, its
\* current_question_index or its completion fields, and its
\* sentiment_analysis_pending flag is changed by nothing but the run of its
\* sentiment job.
C28_CompletionTerminal ==
    [][\A r \in DOMAIN results :
          results[r].completed =>
             /\ results'[r].completed
             /\ results'[r].responses = results[r].responses
             /\ results'[r].current_question_index = results[r].current_question_index
             /\ results'[r].end_time = results[r].end_time
             /\ results'[r].auto_completed = results[r].auto_completed
             /\ \/ \E j \in DOMAIN jobs : JobRan(j) /\ jobs[j].survey_result_id = r
                \/ results'[r].sentiment_analysis_pending
                      = results[r].sentiment_analysis_pending]_vars

\* C29: when every request checks its budget first and records exactly its
\* estimate only if it was within budget, the tokens recorded for a user in
\* the current day never exceed daily_limit, and those of the current month
\* never exceed monthly_limit.
C29_RecordedWithinLimits ==
    \A u \in Users :
        /\ UsageSince(svc.ledger, u, StartOfDay(svc.today)) <= DailyLimit
        /\ UsageSince(svc.ledger, u, StartOfMonth(svc.today)) <= MonthlyLimit

PackedCall == svc.call.op = "retrieve_optimized_context" /\ svc.call.ranked # <<>>

\* the ranks of the hits that do not fit after the hits before them
Overflowing(documents, max_tokens) ==
    {k \in 1..Len(documents) :
        TokensOf(SubSeq(documents, 1, k)) > max_tokens}

\* the rank of the first hit that would overflow, 0 when every hit fits
FirstOverflow(documents, max_tokens) ==
    IF Overflowing(documents, max_tokens) = {} THEN 0
    ELSE CHOOSE k \in Overflowing(documents, max_tokens) :
             \A m \in Overflowing(documents, max_tokens) : k <= m

\* the allowance left after the hits before rank k
RemainingAt(documents, max_tokens, k) ==
    max_tokens - TokensOf(SubSeq(documents, 1, k - 1))

C32_FailedCompressionTruncates ==
    (PackedCall /\ ~svc.call.failed /\ svc.call.outcome = "none") =>
        LET documents == svc.call.ranked
            packed    == svc.call.documents
            k         == FirstOverflow(documents, svc.call.max_tokens)
            remaining == RemainingAt(documents, svc.call.max_tokens, k)
        IN  (k > 0 /\ remaining > MinUsefulTokens) =>
                /\ Len(packed) = k
                /\ ~packed[k].compressed
                /\ count_tokens(packed[k].content) <= remaining

\* C33: a retrieval whose knowledge_base_id names a document that is not
\* among the owner's processed documents searches all of the owner's
\* eligible documents.
C33_MissingDocumentFallsBack ==
    [][LET c == svc'.call
       IN  ( /\ c # svc.call
             /\ svc'.documents = svc.documents
             /\ c.op = "retrieve_optimized_context"
             /\ c.knowledge_base_id \notin {"", "general", "default", "none"}
             /\ ~\E d \in Eligible(svc.documents, c.user_id) :
                    \/ d = c.knowledge_base_id
                    \/ svc.documents[d].name = c.knowledge_base_id )
           => c.relevant = Eligible(svc.documents, c.user_id)]_vars

\* C34: the gather that accepts the answer to the last question of a voice
\* call marks the session of the call completed, sets its end_time and
\* enqueues a sentiment job for it, all in that invocation.
C34_LastVoiceAnswerCompletes ==
    [][\A c \in DOMAIN calls :
          ( /\ VoiceAdvanced(c)
            /\ calls'[c].current_question_index
                  >= Len(SurveyQuestions(calls[c].survey_id)) )
          => \E r \in VoiceResult(results', c, calls[c].survey_id) :
                /\ results'[r].completed
                /\ results'[r].end_time # NoneVal
                /\ \E j \in DOMAIN jobs' \ DOMAIN jobs :
                      jobs'[j].survey_result_id = r]_vars

\* the number of questions of a survey, 0 for a survey that is not stored
QuestionsOf(survey_id) ==
    IF survey_id \in DOMAIN surveys THEN Len(SurveyQuestions(survey_id)) ELSE 0

\* C35: with the surveys left as they are, the index of every WhatsApp
\* session stays within 0..N-1 and the index of every voice call within
\* 0..N, N being the number of questions of its survey, and every
\* invocation in flight has read an index that is in range for its question.
C35_IndexWithinRange ==
    /\ \A r \in DOMAIN results :
          /\ results[r].current_question_index >= 0
          /\ results[r].current_question_index < QuestionsOf(results[r].survey_id)
    /\ \A c \in DOMAIN calls :
          /\ calls[c].current_question_index >= 0
          /\ calls[c].current_question_index <= QuestionsOf(calls[c].survey_id)
    /\ \A w \in DOMAIN workers :
          IF "call" \in DOMAIN workers[w]
          THEN workers[w].call.current_question_index
                  <= QuestionsOf(workers[w].call.survey_id)
          ELSE workers[w].seen.current_question_index
                  < QuestionsOf(workers[w].seen.survey_id)

\* a WhatsApp session at its last question after overlapping answers, one
\* of them written over a newer state of the session
C35_Witness ==
    \E r \in DOMAIN results :
        /\ results[r].current_question_index + 1 = QuestionsOf(results[r].survey_id)
        /\ hist[r].stale_writes > 0

\* C36: the gather that starts the survey of a voice call stores no answer
\* and leaves the index at 0, and once the survey of a call has started no
\* gather, later or overlapping, takes its index back.
C36_StartedOnceNeverReset ==
    [][\A c \in DOMAIN calls :
          /\ (~calls[c].survey_started /\ calls'[c].survey_started)
                => /\ calls'[c].current_question_index = 0
                   /\ results' = results
          /\ calls[c].survey_started
                => /\ calls'[c].survey_started
                   /\ calls'[c].current_question_index
                         >= calls[c].current_question_index]_vars

\* C37: no call of check_budget raises, and a call whose reading of the
\* ledger failed answers within_budget = true.
C37_BudgetCheckFailsOpen ==
    svc.call.op = "check_budget" =>
        /\ ~svc.call.raised
        /\ svc.call.failed => svc.call.within_budget

\* a check whose reads failed and that allowed an estimate above the limit
\* of one request
C37_Witness ==
    /\ svc.call.op = "check_budget"
    /\ svc.call.failed
    /\ svc.call.within_budget
    /\ ~svc.call.raised
    /\ svc.call.estimated_tokens > PerRequestLimit

\* models/call.py: the values of the enumeration CallStatus
CallStatus == {"scheduled", "in-progress", "paused", "completed", "failed",
               "cancelled"}

\* C38: the status of every call document is a value of CallStatus.
C38_StatusIsCallStatus ==
    \A c \in DOMAIN calls : calls[c].status \in CallStatus

\* overlapping invocations of the inbound WhatsApp webhook, next to the
\* requests that open and close the WhatsApp sessions they work on
NextConcurrent ==
    \/ BeginInbound
    \/ FinishInbound
    \/ Inbound
    \/ SentimentJob
    \/ CreateCall
    \/ SendSurvey
    \/ CreateKnowledgeInquiry
    \/ UpdateCall

SpecConcurrent == Init /\ [][NextConcurrent]_vars

\* the knowledge path by itself: retrieval, packing and the answer
NextRetrieval ==
    \/ Retrieve
    \/ KnowledgeQuery

SpecRetrieval == Init /\ [][NextRetrieval]_vars

\* the documents collection and the retrievals that filter it
NextDocuments ==
    \/ UploadDocument
    \/ ProcessDocument
    \/ DeleteDocument
    \/ RetrieveForContext

SpecDocuments == Init /\ [][NextDocuments]_vars

\* one handler at a time, with session reads and writes that can raise
NextFaulty ==
    \/ Inbound
    \/ InboundDbFailure
    \/ SentimentJob
    \/ CreateCall
    \/ SendSurvey
    \/ CreateKnowledgeInquiry
    \/ UpdateCall

SpecFaulty == Init /\ [][NextFaulty]_vars

\* one handler at a time, next to the requests that create, edit and delete
\* surveys
NextSurveys ==
    \/ CreateSurvey
    \/ UpdateSurvey
    \/ DeleteSurvey
    \/ InboundNumeric
    \/ Inbound
    \/ CreateCall
    \/ SendSurvey

SpecSurveys == Init /\ [][NextSurveys]_vars

\* the budget check next to the requests that call the model
NextBudget ==
    \/ CheckBudget
    \/ OrchestratorRequest
    \/ AnalyzerRequest
    \/ NewDay

SpecBudget == Init /\ [][NextBudget]_vars

\* the voice channel by itself: calls coming in and their gathers
NextVoice ==
    \/ VoiceCall
    \/ Gather
    \/ GatherUnanswered

SpecVoice == Init /\ [][NextVoice]_vars

\* both channels with invocations that overlap, the surveys left as they are
NextInterleaved ==
    \/ CreateCall
    \/ BeginInbound
    \/ FinishInbound
    \/ VoiceCall
    \/ BeginGather
    \/ FinishGather

SpecInterleaved == Init /\ [][NextInterleaved]_vars

\* the Response Interpreter by itself
NextInterpreter ==
    \/ Interpret

SpecInterpreter == Init /\ [][NextInterpreter]_vars

\* requests that keep to the guard, overlapping, over the days
NextGuarded ==
    \/ BeginGuardedRequest
    \/ FinishGuardedRequest
    \/ NewDay

SpecGuarded == Init /\ [][NextGuarded]_vars

\* the system's own operations, a bounded number of them, next to
\* respondents who keep answering
NextAnswering ==
    \/ UpdateSurvey
    \/ DeleteSurvey
    \/ CreateCall
    \/ SendSurvey
    \/ CreateKnowledgeInquiry
    \/ ValidAnswer

SpecAnswering == Init /\ [][NextAnswering]_vars

\* every respondent of an active session goes on sending valid answers
FairAnswering ==
    SpecAnswering /\ \A r \in 1..MaxSessions : WF_vars(answer_valid(r))

\* one handler at a time; the event loop runs every task it has spawned
FairSpec == Spec /\ WF_vars(SentimentJob)

====
